---- MODULE Spec2Model ----
(***************************************************************************)
(* A model of the numeric/IO core of AstroBurst: the memory-mapped FITS    *)
(* walker (utils/mmap.rs, model/header.rs), the lazy cube with its LRU     *)
(* frame cache (domain/lazy_cube.rs) and the sigma-clipped stacker with    *)
(* its integer alignment (domain/stacking.rs).                             *)
(*                                                                         *)
(* Conventions.  Option<T> is a sequence of length 0 (None) or 1 (Some).   *)
(* Result<T> is a record with ok = TRUE and val, or ok = FALSE and err.    *)
(* A decoded pixel vector is described by the mapped byte range it was     *)
(* decoded from (src, bpp) and its length n, never by copied values: two   *)
(* vectors are the same pixels iff they decode the same bytes the same way.*)
(* f32/f64 arithmetic is modelled exactly (integers and rationals).        *)
(***************************************************************************)
EXTENDS Integers, Sequences, FiniteSets, TLC

\* ------------------------------------------------------------------ bounds
MaxHdus == 2        \* HDUs in a modelled file
NumThreads == 2     \* threads calling into one LazyCube
MaxCap == 2         \* largest cache_frames passed to open_with_cache
MaxCalls == 4       \* calls started on one LazyCube in a behaviour
WalkCalls == 1      \* calls made on a LazyCube opened from an arbitrary file
MaxN == 6           \* frames handed to stack_images / values to sigma_clip_combine
MaxR == 1           \* largest search radius handed to compute_offset

\* ------------------------------------------------------- program constants
BLOCK_SIZE == 2880
CARD_SIZE == 80
DEFAULT_CACHE_SIZE == 64
DefaultSigma == 3
DefaultMaxIter == 5
SearchRadius == 50

VARIABLES
    mmap,        \* the mapped file: [len, hdus]
    cube,        \* Option<LazyCube>: geometry of the opened cube
    cache,       \* LruFrameCache: [entries, max_entries, access_counter]
    lock,        \* Option<thread>: holder of the cache Mutex
    pc,          \* per thread: position inside get_frame / clear_cache
    call,        \* per thread: the call in progress or last made
    tframe,      \* per thread: frame decoded by get_frame, not yet inserted
    ret,         \* Option<[call, res]>: the call the last step returned from, its result
    calls,       \* number of calls started
    mmapReads,   \* number of slices of the mapping the last step took
    recency,     \* the cached keys, least recently accessed (hit or insert) first
    lastEvicted, \* Option<key>: the key the last step evicted from the cache
    walk,        \* Option<Result> of the last one-shot decode entry point
    stack,       \* stacking harness: inputs and result of stack_images
    align,       \* alignment harness: inputs and result of compute_offset
    rgb,         \* compose harness: channels, config, result and file of compose_rgb
    calib,       \* calibration harness: science frame, masters and result
    display,     \* display harness: frame, its statistics, histogram and stretch
    batch        \* batch harness: input paths and the per-path results

cubeVars == <<cube, cache, lock, pc, call, tframe, ret, calls, mmapReads,
              recency, lastEvicted>>
otherVars == <<rgb, calib, display, batch>>
vars == <<mmap, cubeVars, walk, stack, align, otherVars>>

\* ------------------------------------------------------------- Option/Result
None == <<>>
Some(v) == <<v>>
unwrap_or(o, d) == IF o = None THEN d ELSE o[1]
Ok(v) == [ok |-> TRUE, val |-> v]
Err(e) == [ok |-> FALSE, err |-> e]
Abs(x) == IF x < 0 THEN -x ELSE x
CeilDiv(a, b) == (a + b - 1) \div b
Min(a, b) == IF a < b THEN a ELSE b
Max(a, b) == IF a > b THEN a ELSE b

\* ------------------------------------------------------------- FITS cards
\* A card as parse_header_at sees it: the trimmed keyword of bytes 0..8,
\* whether bytes 8..10 are "= ", and the extracted value.
ValuedCard(kw, v) == [kw |-> kw, sep |-> TRUE, val |-> v]
CommentCard == [kw |-> "COMMENT", sep |-> FALSE, val |-> 0]
HistoryCard == [kw |-> "HISTORY", sep |-> FALSE, val |-> 0]
BlankCard == [kw |-> "", sep |-> FALSE, val |-> 0]
EndCard == [kw |-> "END", sep |-> FALSE, val |-> 0]

CardsPerBlock == BLOCK_SIZE \div CARD_SIZE

\* ---------------------------------------------------------- model/header.rs
EmptyHeader == [cards |-> <<>>, index |-> <<>>]

HasKey(header, key) == \E i \in 1..Len(header.index) : header.index[i][1] = key

\* HashMap::get on the keyword index (kept as an association list whose
\* keys are unique: insert replaces).
IndexGet(header, key) ==
    IF HasKey(header, key)
    THEN Some((CHOOSE p \in {header.index[i] : i \in 1..Len(header.index)} : p[1] = key)[2])
    ELSE None

IndexInsert(index, key, v) ==
    IF \E i \in 1..Len(index) : index[i][1] = key
    THEN [i \in 1..Len(index) |-> IF index[i][1] = key THEN <<key, v>> ELSE index[i]]
    ELSE Append(index, <<key, v>>)

\* get_i64: the value parsed as an integer (every modelled value is one).
get_i64(header, key) == IndexGet(header, key)

RECURSIVE NaxisProduct(_, _, _)
NaxisProduct(header, i, naxis) ==
    IF i > naxis THEN 1
    ELSE unwrap_or(get_i64(header, IF i = 1 THEN "NAXIS1" ELSE IF i = 2 THEN "NAXIS2" ELSE "NAXIS3"), 1)
         * NaxisProduct(header, i + 1, naxis)

data_byte_count(header) ==
    LET naxis == unwrap_or(get_i64(header, "NAXIS"), 0) IN
    IF naxis = 0 THEN 0
    ELSE LET bitpix == unwrap_or(get_i64(header, "BITPIX"), 0)
             bytes_per_pixel == Abs(bitpix) \div 8
         IN  NaxisProduct(header, 1, naxis) * bytes_per_pixel

\* A slip in the skip distance: the data bytes, not rounded up to a block.
padded_data_bytes_unrounded(header) == data_byte_count(header)

padded_data_bytes(header) ==
    LET raw == data_byte_count(header) IN
    ((raw + BLOCK_SIZE - 1) \div BLOCK_SIZE) * BLOCK_SIZE

header_blocks(header) ==
    LET total_cards == Len(header.cards) + 1
        cards_per_block == BLOCK_SIZE \div CARD_SIZE
    IN  (total_cards + cards_per_block - 1) \div cards_per_block

data_offset(header, header_start) ==
    header_start + header_blocks(header) * BLOCK_SIZE

\* ------------------------------------------------------------ the mapped file
\* A file is a sequence of HDUs laid out by a standard-conforming writer
\* (header cards, END, blank padding to a block; data padded to a block),
\* then possibly cut short.  An HDU is described by the keywords its header
\* carries and by the number of COMMENT/HISTORY/blank cards it holds.
Hdu(naxis, n1, n2, n3, bitpix, filler) ==
    [naxis |-> naxis, n1 |-> n1, n2 |-> n2, n3 |-> n3, bitpix |-> bitpix, filler |-> filler]

HduKinds == {
    Hdu(0, 0, 0, 0, Some(8), 0),          \* empty primary HDU
    Hdu(2, 1, 3000, 0, Some(8), 0),       \* a 1-pixel-wide strip: no image, 3000 data bytes
    Hdu(2, 2, 2, 0, Some(-32), 0),        \* 2x2 f32 image
    Hdu(2, 30, 30, 0, Some(-64), 1),      \* 30x30 f64 image, 7200 data bytes
    Hdu(3, 2, 2, 1, Some(16), 0),         \* degenerate cube, depth 1: an image, no cube
    Hdu(3, 2, 2, 2, Some(16), 0),         \* 2x2x2 i16 cube
    Hdu(3, 2, 2, 2, Some(-32), CardsPerBlock), \* the same with a block of COMMENT cards
    Hdu(3, 2, 2, 2, Some(64), 0),         \* i64 cube: valid FITS, BITPIX not decoded here
    Hdu(2, 2, 2, 0, None, 0),             \* image header without a BITPIX card
    Hdu(3, 2, 2, 2, None, 0) }            \* cube header without a BITPIX card

AxisCards(h) ==
    (IF h.naxis >= 1 THEN <<ValuedCard("NAXIS1", h.n1)>> ELSE <<>>)
    \o (IF h.naxis >= 2 THEN <<ValuedCard("NAXIS2", h.n2)>> ELSE <<>>)
    \o (IF h.naxis >= 3 THEN <<ValuedCard("NAXIS3", h.n3)>> ELSE <<>>)

\* The header's cards in file order, up to and excluding END.
HduCards(h) ==
    <<ValuedCard("SIMPLE", 1)>>
    \o (IF h.bitpix = None THEN <<>> ELSE <<ValuedCard("BITPIX", h.bitpix[1])>>)
    \o <<ValuedCard("NAXIS", h.naxis)>>
    \o AxisCards(h)
    \o [i \in 1..h.filler |-> IF i % 3 = 0 THEN HistoryCard
                              ELSE IF i % 3 = 1 THEN CommentCard ELSE BlankCard]

\* Bytes on disk (FITS standard 4.4.1): |BITPIX|/8 * NAXIS1 * ... * NAXISn.
HduDataBytes(h) ==
    IF h.naxis = 0 \/ h.bitpix = None THEN 0
    ELSE (Abs(h.bitpix[1]) \div 8) * h.n1
         * (IF h.naxis >= 2 THEN h.n2 ELSE 1) * (IF h.naxis >= 3 THEN h.n3 ELSE 1)

HduHeaderBytes(h) == CeilDiv(Len(HduCards(h)) + 1, CardsPerBlock) * BLOCK_SIZE
HduDiskBytes(h) == HduHeaderBytes(h) + CeilDiv(HduDataBytes(h), BLOCK_SIZE) * BLOCK_SIZE

RECURSIVE HduStart(_, _)
HduStart(hdus, i) == IF i = 1 THEN 0 ELSE HduStart(hdus, i - 1) + HduDiskBytes(hdus[i - 1])
HduDataStart(hdus, i) == HduStart(hdus, i) + HduHeaderBytes(hdus[i])
FileBytes(hdus) == HduStart(hdus, Len(hdus) + 1)

\* How many bytes a file may be short of its full length.
Truncations == {0, 1, BLOCK_SIZE}

RECURSIVE SeqsUpTo(_, _)
SeqsUpTo(S, n) ==
    IF n = 0 THEN {<<>>}
    ELSE LET shorter == SeqsUpTo(S, n - 1) IN
         shorter \cup {Append(s, x) : s \in {t \in shorter : Len(t) = n - 1}, x \in S}

Files == {[len |-> FileBytes(hdus) - cut, hdus |-> hdus] :
            hdus \in SeqsUpTo(HduKinds, MaxHdus) \ {<<>>}, cut \in Truncations}

\* ------------------------------------------------------------ utils/mmap.rs
\* The 36 cards of the header block that starts at byte `pos`, when `pos` is
\* inside the header of the HDU starting at `offset`.
BlockCards(m, offset, pos) ==
    LET i == CHOOSE j \in 1..Len(m.hdus) : HduStart(m.hdus, j) = offset
        stream == Append(HduCards(m.hdus[i]), EndCard)
        first == ((pos - offset) \div BLOCK_SIZE) * CardsPerBlock
    IN  [c \in 1..CardsPerBlock |->
            IF first + c <= Len(stream) THEN stream[first + c] ELSE BlankCard]

\* One iteration of `for card_bytes in block.chunks_exact(80)`.
ParseCard(st, card) ==
    IF st.end_found THEN st
    ELSE IF card.kw = "END" THEN [st EXCEPT !.end_found = TRUE]
    ELSE IF ~card.sep THEN st
    ELSE [st EXCEPT !.cards = Append(@, <<card.kw, card.val>>),
                    !.index = IndexInsert(@, card.kw, card.val)]

RECURSIVE ParseBlock(_, _, _)
ParseBlock(st, block, c) ==
    IF c > Len(block) THEN st ELSE ParseBlock(ParseCard(st, block[c]), block, c + 1)

RECURSIVE ParseLoop(_, _, _, _)
ParseLoop(m, offset, pos, st) ==
    IF st.end_found THEN Ok([st |-> st, pos |-> pos])
    ELSE IF pos + BLOCK_SIZE > m.len THEN Err("Unexpected end of file while reading header")
    ELSE ParseLoop(m, offset, pos + BLOCK_SIZE, ParseBlock(st, BlockCards(m, offset, pos), 1))

\* parse_header_at.  At an offset where no header starts the bytes are pixel
\* data or padding and what the loop makes of them is not modelled: the
\* call is reported as the error "not a header".
parse_header_at(m, offset) ==
    IF ~(\E j \in 1..Len(m.hdus) : HduStart(m.hdus, j) = offset)
    THEN Err("not a header")
    ELSE LET r == ParseLoop(m, offset, offset,
                            [cards |-> <<>>, index |-> <<>>, end_found |-> FALSE])
         IN  IF ~r.ok THEN r
             ELSE LET header == [cards |-> r.val.st.cards, index |-> r.val.st.index]
                      data_start == r.val.pos
                  IN  Ok([header |-> header,
                          header_start |-> offset,
                          data_start |-> data_start,
                          next_hdu_offset |-> data_start + padded_data_bytes(header)])

SupportedBitpix == {8, 16, 32, -32, -64}

\* decode_pixels over the mapped bytes [from, to): chunks_exact(|bitpix|/8),
\* each decoded big-endian and scaled; an empty vector for any other BITPIX.
decode_pixels(from, to, bitpix) ==
    IF bitpix \in SupportedBitpix
    THEN [src |-> from, bpp |-> Abs(bitpix) \div 8, n |-> (to - from) \div (Abs(bitpix) \div 8)]
    ELSE [src |-> from, bpp |-> 0, n |-> 0]

\* decode_single_pixel over the bytes at `from`: 0.0 for any other BITPIX.
decode_single_pixel(from, bitpix) ==
    IF bitpix \in SupportedBitpix
    THEN [src |-> from, bpp |-> Abs(bitpix) \div 8, zero |-> FALSE]
    ELSE [src |-> from, bpp |-> 0, zero |-> TRUE]

\* ndarray from_shape_vec: the shape must hold exactly the vector.
RECURSIVE Product(_)
Product(shape) == IF shape = <<>> THEN 1 ELSE Head(shape) * Product(Tail(shape))
from_shape_vec(shape, pixels, what) ==
    IF Product(shape) = pixels.n THEN Ok([shape |-> shape, pixels |-> pixels])
    ELSE Err(what)

\* What a walk over the HDUs hands back, with what it did on the way: the
\* offsets of the headers it skipped and the offset of the HDU it selected.
WalkOut(res, skipped, at) == [res |-> res, skipped |-> skipped, at |-> at]

RECURSIVE extract_image_walk(_, _, _)
extract_image_walk(m, offset, skipped) ==
    IF ~(offset < m.len) THEN WalkOut(Err("No 2D image block found"), skipped, None)
    ELSE LET p == parse_header_at(m, offset) IN
    IF ~p.ok THEN WalkOut(p, skipped, Some(offset))
    ELSE LET header == p.val.header
             naxis == unwrap_or(get_i64(header, "NAXIS"), 0)
             naxis1 == unwrap_or(get_i64(header, "NAXIS1"), 0)
             naxis2 == unwrap_or(get_i64(header, "NAXIS2"), 0)
         IN
         IF naxis >= 2 /\ naxis1 > 1 /\ naxis2 > 1
         THEN LET data_off == p.val.data_start
                  bitpix == get_i64(header, "BITPIX")
              IN
              IF bitpix = None
              THEN WalkOut(Err("Missing BITPIX in image HDU"), skipped, Some(offset))
              ELSE LET bytes_per_pixel == Abs(bitpix[1]) \div 8
                       slice_bytes == naxis1 * naxis2 * bytes_per_pixel
                       data_end == data_off + slice_bytes
                   IN  IF data_end > m.len
                       THEN WalkOut(Err("Image data exceeds file size"), skipped, Some(offset))
                       ELSE WalkOut(from_shape_vec(<<naxis2, naxis1>>,
                                        decode_pixels(data_off, data_end, bitpix[1]),
                                        "Failed to reshape image pixels"),
                                    skipped, Some(offset))
         ELSE extract_image_walk(m, p.val.next_hdu_offset, Append(skipped, offset))

extract_image_mmap(m) == extract_image_walk(m, 0, <<>>)

RECURSIVE extract_cube_walk(_, _, _)
extract_cube_walk(m, offset, skipped) ==
    IF ~(offset < m.len) THEN WalkOut(Err("No 3D data block found"), skipped, None)
    ELSE LET p == parse_header_at(m, offset) IN
    IF ~p.ok THEN WalkOut(p, skipped, Some(offset))
    ELSE LET header == p.val.header
             naxis == unwrap_or(get_i64(header, "NAXIS"), 0)
             naxis3 == unwrap_or(get_i64(header, "NAXIS3"), 0)
         IN
         IF naxis = 3 /\ naxis3 > 1
         THEN LET naxis1 == unwrap_or(get_i64(header, "NAXIS1"), 0)
                  naxis2 == unwrap_or(get_i64(header, "NAXIS2"), 0)
                  data_off == p.val.data_start
                  bitpix == get_i64(header, "BITPIX")
              IN
              IF bitpix = None
              THEN WalkOut(Err("Missing BITPIX in cube HDU"), skipped, Some(offset))
              ELSE LET bytes_per_pixel == Abs(bitpix[1]) \div 8
                       total_bytes == naxis1 * naxis2 * naxis3 * bytes_per_pixel
                       data_end == data_off + total_bytes
                   IN  IF data_end > m.len
                       THEN WalkOut(Err("Cube data exceeds file size"), skipped, Some(offset))
                       ELSE WalkOut(from_shape_vec(<<naxis3, naxis2, naxis1>>,
                                        decode_pixels(data_off, data_end, bitpix[1]),
                                        "Failed to reshape cube pixels"),
                                    skipped, Some(offset))
         ELSE extract_cube_walk(m, p.val.next_hdu_offset, Append(skipped, offset))

extract_cube_mmap(m) == extract_cube_walk(m, 0, <<>>)

\* ------------------------------------------------------- domain/lazy_cube.rs
LruFrameCache_new(max_entries) ==
    [entries |-> <<>>, max_entries |-> max_entries, access_counter |-> 0]

RECURSIVE open_walk(_, _, _, _)
open_walk(m, cache_frames, offset, skipped) ==
    IF ~(offset < m.len) THEN WalkOut(Err("No 3D data block found in FITS file"), skipped, None)
    ELSE LET p == parse_header_at(m, offset) IN
    IF ~p.ok THEN WalkOut(p, skipped, Some(offset))
    ELSE LET header == p.val.header
             naxis == unwrap_or(get_i64(header, "NAXIS"), 0)
             naxis3 == unwrap_or(get_i64(header, "NAXIS3"), 0)
         IN
         IF naxis = 3 /\ naxis3 > 1
         THEN LET naxis1 == unwrap_or(get_i64(header, "NAXIS1"), 0)
                  naxis2 == unwrap_or(get_i64(header, "NAXIS2"), 0)
                  bitpix == get_i64(header, "BITPIX")
              IN
              IF bitpix = None THEN WalkOut(Err("Missing BITPIX"), skipped, Some(offset))
              ELSE LET bytes_per_pixel == Abs(bitpix[1]) \div 8
                       frame_bytes == naxis1 * naxis2 * bytes_per_pixel
                       data_off == data_offset(header, p.val.header_start)
                       total_bytes == frame_bytes * naxis3
                       data_end == data_off + total_bytes
                   IN  IF data_end > m.len
                       THEN WalkOut(Err("Cube data exceeds file size"), skipped, Some(offset))
                       ELSE WalkOut(Ok([geometry |->
                                          [naxis1 |-> naxis1, naxis2 |-> naxis2, naxis3 |-> naxis3,
                                           bitpix |-> bitpix[1], bytes_per_pixel |-> bytes_per_pixel,
                                           data_offset |-> data_off, frame_bytes |-> frame_bytes],
                                        cache |-> LruFrameCache_new(cache_frames)]),
                                    skipped, Some(offset))
         ELSE open_walk(m, cache_frames, p.val.next_hdu_offset, Append(skipped, offset))

open_with_cache(m, cache_frames) == open_walk(m, cache_frames, 0, <<>>)
open(m) == open_with_cache(m, DEFAULT_CACHE_SIZE)

\* A slip in insert's victim choice: the entry accessed last (max_by_key).
min_by_key_most_recent(entries) ==
    {k \in DOMAIN entries :
        \A j \in DOMAIN entries : entries[k].last_access >= entries[j].last_access}

\* min_by_key(|(_, entry)| entry.last_access) over a HashMap: an entry of
\* minimal last_access; which one, among equals, is the map's iteration order.
min_by_key(entries) ==
    {k \in DOMAIN entries :
        \A j \in DOMAIN entries : entries[k].last_access <= entries[j].last_access}

LruFrameCache_get(c, frame_idx) ==
    IF frame_idx \in DOMAIN c.entries
    THEN LET counter == c.access_counter + 1 IN
         [hit |-> Some(c.entries[frame_idx].frame),
          cache |-> [c EXCEPT !.access_counter = counter,
                              !.entries[frame_idx].last_access = counter]]
    ELSE [hit |-> None, cache |-> c]

\* HashMap::insert of (key, entry) into entries.
MapInsert(entries, key, entry) ==
    [k \in DOMAIN entries \cup {key} |-> IF k = key THEN entry ELSE entries[k]]
MapRemove(entries, key) == [k \in DOMAIN entries \ {key} |-> entries[k]]

\* The outcomes of insert: the cache after it and the key it evicted.
LruFrameCache_insert(c, frame_idx, frame) ==
    LET full == Cardinality(DOMAIN c.entries) >= c.max_entries
                /\ frame_idx \notin DOMAIN c.entries
        victims == IF full THEN {Some(k) : k \in min_by_key(c.entries)} ELSE {}
        counter == c.access_counter + 1
        after(kept) == [c EXCEPT !.access_counter = counter,
                                 !.entries = MapInsert(kept, frame_idx,
                                     [frame |-> frame, last_access |-> counter])]
    IN  IF victims = {} THEN {[cache |-> after(c.entries), evicted |-> None]}
        ELSE {[cache |-> after(MapRemove(c.entries, v[1])), evicted |-> v] : v \in victims}

LruFrameCache_clear(c) == [c EXCEPT !.entries = <<>>, !.access_counter = 0]

\* A slip in the bounds check: z > depth lets z = depth through.
FrameOutOfRange_off_by_one(g, z) == z > g.naxis3

\* get_frame's bounds check: the frame index is out of range.
FrameOutOfRange(g, z) == z >= g.naxis3

\* The frame-sized byte slice of frame z, decoded and reshaped.
DecodeFrame(g, z) ==
    LET start == g.data_offset + z * g.frame_bytes
        end == start + g.frame_bytes
    IN  [from |-> start, to |-> end,
         frame |-> from_shape_vec(<<g.naxis2, g.naxis1>>,
                                  decode_pixels(start, end, g.bitpix),
                                  "Failed to reshape frame pixels")]

get_frame_range(g, start_z, end_z0) ==
    LET end_z == Min(end_z0, g.naxis3) IN
    IF start_z >= end_z THEN [reads |-> {}, res |-> Err("Invalid frame range")]
    ELSE LET count == end_z - start_z
             byte_start == g.data_offset + start_z * g.frame_bytes
             byte_end == byte_start + count * g.frame_bytes
         IN  [reads |-> {<<byte_start, byte_end>>},
              res |-> from_shape_vec(<<count, g.naxis2, g.naxis1>>,
                                     decode_pixels(byte_start, byte_end, g.bitpix),
                                     "Failed to reshape frame range")]

\* extract_spectrum_at's bounds check: the pixel is outside the frame.
PixelOutOfBounds(g, y, x) == y >= g.naxis2 \/ x >= g.naxis1

extract_spectrum_at(g, y, x) ==
    IF PixelOutOfBounds(g, y, x) THEN [reads |-> {}, res |-> Err("Pixel out of bounds")]
    ELSE LET pixel_offset_in_frame == (y * g.naxis1 + x) * g.bytes_per_pixel
             abs_offset(z) == g.data_offset + z * g.frame_bytes + pixel_offset_in_frame
         IN  [reads |-> {<<abs_offset(z), abs_offset(z) + g.bytes_per_pixel>> : z \in 0..(g.naxis3 - 1)},
              res |-> Ok([z \in 1..g.naxis3 |-> decode_single_pixel(abs_offset(z - 1), g.bitpix)])]

\* ----------------------------------------------- threads on one LazyCube
Threads == 1..NumThreads
NoCall == [op |-> "none", z |-> 0, y |-> 0, x |-> 0]
Returned(c, res) == Some([call |-> c, res |-> res])

\* get_frame(z), entered by thread t: the bounds check, before any lock.
GetFrameCall(t, z, limit) ==
    /\ pc[t] = "idle" /\ cube # None /\ calls < limit
    /\ calls' = calls + 1
    /\ LET c == [op |-> "get_frame", z |-> z, y |-> 0, x |-> 0] IN
       IF FrameOutOfRange(cube[1], z)
       THEN /\ ret' = Returned(c, Err("Frame index out of range"))
            /\ UNCHANGED <<pc, call>>
       ELSE /\ call' = [call EXCEPT ![t] = c]
            /\ pc' = [pc EXCEPT ![t] = "lock_lookup"]
            /\ ret' = None
    /\ mmapReads' = 0 /\ lastEvicted' = None
    /\ UNCHANGED <<mmap, cube, cache, lock, tframe, recency, walk, stack, align, otherVars>>

\* self.cache.lock(): blocks until the mutex is free.
AcquireLock(t) ==
    /\ pc[t] \in {"lock_lookup", "lock_insert", "lock_clear"}
    /\ lock = None
    /\ lock' = Some(t)
    /\ pc' = [pc EXCEPT ![t] = IF pc[t] = "lock_lookup" THEN "lookup"
                                ELSE IF pc[t] = "lock_insert" THEN "insert" ELSE "clear"]
    /\ ret' = None /\ mmapReads' = 0 /\ lastEvicted' = None
    /\ UNCHANGED <<mmap, cube, cache, call, tframe, calls, recency, walk, stack, align, otherVars>>

\* The true recency order after an access to key k: k becomes the last.
Forget(order, k) == SelectSeq(order, LAMBDA j : j # k)
Touch(order, k) == Append(Forget(order, k), k)

\* cache.get(z) under the lock; the guard is dropped at the end of the block.
CacheLookup(t) ==
    /\ pc[t] = "lookup" /\ lock = Some(t)
    /\ LET r == LruFrameCache_get(cache, call[t].z) IN
       /\ cache' = r.cache
       /\ IF r.hit # None
          THEN /\ ret' = Returned(call[t], Ok(r.hit[1]))
               /\ pc' = [pc EXCEPT ![t] = "idle"]
               /\ call' = [call EXCEPT ![t] = NoCall]
               /\ recency' = Touch(recency, call[t].z)
          ELSE /\ pc' = [pc EXCEPT ![t] = "decode"]
               /\ ret' = None
               /\ UNCHANGED <<call, recency>>
    /\ lock' = None
    /\ mmapReads' = 0 /\ lastEvicted' = None
    /\ UNCHANGED <<mmap, cube, tframe, calls, walk, stack, align, otherVars>>

\* The decode of the frame's bytes, outside the lock.
DecodeStep(t) ==
    /\ pc[t] = "decode"
    /\ LET d == DecodeFrame(cube[1], call[t].z) IN
       /\ mmapReads' = 1
       /\ IF d.frame.ok
          THEN /\ tframe' = [tframe EXCEPT ![t] = Some(d.frame.val)]
               /\ pc' = [pc EXCEPT ![t] = "lock_insert"]
               /\ ret' = None
               /\ call' = call
          ELSE /\ ret' = Returned(call[t], d.frame)
               /\ pc' = [pc EXCEPT ![t] = "idle"]
               /\ call' = [call EXCEPT ![t] = NoCall]
               /\ tframe' = tframe
    /\ lastEvicted' = None
    /\ UNCHANGED <<mmap, cube, cache, lock, calls, recency, walk, stack, align, otherVars>>

\* cache.insert(z, frame.clone()) under the lock, then Ok(frame).
CacheInsert(t) ==
    /\ pc[t] = "insert" /\ lock = Some(t)
    /\ \E r \in LruFrameCache_insert(cache, call[t].z, tframe[t][1]) :
        /\ cache' = r.cache
        /\ lastEvicted' = r.evicted
        /\ recency' = Touch(IF r.evicted = None THEN recency
                            ELSE Forget(recency, r.evicted[1]), call[t].z)
    /\ ret' = Returned(call[t], Ok(tframe[t][1]))
    /\ tframe' = [tframe EXCEPT ![t] = None]
    /\ call' = [call EXCEPT ![t] = NoCall]
    /\ pc' = [pc EXCEPT ![t] = "idle"]
    /\ lock' = None
    /\ mmapReads' = 0
    /\ UNCHANGED <<mmap, cube, calls, walk, stack, align, otherVars>>

\* clear_cache(), entered by thread t.
ClearCacheCall(t, limit) ==
    /\ pc[t] = "idle" /\ cube # None /\ calls < limit
    /\ calls' = calls + 1
    /\ call' = [call EXCEPT ![t] = [op |-> "clear_cache", z |-> 0, y |-> 0, x |-> 0]]
    /\ pc' = [pc EXCEPT ![t] = "lock_clear"]
    /\ ret' = None /\ mmapReads' = 0 /\ lastEvicted' = None
    /\ UNCHANGED <<mmap, cube, cache, lock, tframe, recency, walk, stack, align, otherVars>>

CacheClear(t) ==
    /\ pc[t] = "clear" /\ lock = Some(t)
    /\ cache' = LruFrameCache_clear(cache)
    /\ recency' = <<>>
    /\ call' = [call EXCEPT ![t] = NoCall]
    /\ pc' = [pc EXCEPT ![t] = "idle"]
    /\ lock' = None
    /\ ret' = None /\ mmapReads' = 0 /\ lastEvicted' = None
    /\ UNCHANGED <<mmap, cube, tframe, calls, walk, stack, align, otherVars>>

\* extract_spectrum_at(y, x): reads the mapping only, no cache involvement.
ExtractSpectrumAt(t, y, x, limit) ==
    /\ pc[t] = "idle" /\ cube # None /\ calls < limit
    /\ calls' = calls + 1
    /\ LET r == extract_spectrum_at(cube[1], y, x) IN
       /\ ret' = Returned([op |-> "extract_spectrum_at", z |-> 0, y |-> y, x |-> x], r.res)
       /\ mmapReads' = Cardinality(r.reads)
    /\ lastEvicted' = None
    /\ UNCHANGED <<mmap, cube, cache, lock, pc, call, tframe, recency, walk, stack, align, otherVars>>

\* get_frame_range(start_z, end_z): reads the mapping only.
GetFrameRange(t, start_z, end_z, limit) ==
    /\ pc[t] = "idle" /\ cube # None /\ calls < limit
    /\ calls' = calls + 1
    /\ LET r == get_frame_range(cube[1], start_z, end_z) IN
       /\ ret' = Returned([op |-> "get_frame_range", z |-> start_z, y |-> end_z, x |-> 0], r.res)
       /\ mmapReads' = Cardinality(r.reads)
    /\ lastEvicted' = None
    /\ UNCHANGED <<mmap, cube, cache, lock, pc, call, tframe, recency, walk, stack, align, otherVars>>

\* ------------------------------------------------- specification: SpecCache
\* Threads calling get_frame, extract_spectrum_at and clear_cache on one cube
\* opened with any cache_frames in 0..MaxCap.
CubeDepth == 3
CubeFile ==
    LET hdus == <<Hdu(0, 0, 0, 0, Some(8), 0), Hdu(3, 2, 2, CubeDepth, Some(-32), 0)>>
    IN  [len |-> FileBytes(hdus), hdus |-> hdus]

Unused == "unused"

OthersUnused == rgb = Unused /\ calib = Unused /\ display = Unused /\ batch = Unused

InitThreads ==
    /\ lock = None
    /\ pc = [t \in Threads |-> "idle"]
    /\ call = [t \in Threads |-> NoCall]
    /\ tframe = [t \in Threads |-> None]
    /\ ret = None
    /\ calls = 0
    /\ mmapReads = 0
    /\ recency = <<>>
    /\ lastEvicted = None

InitCache ==
    /\ mmap = CubeFile
    /\ \E cache_frames \in 0..MaxCap :
        LET o == open_with_cache(mmap, cache_frames) IN
        /\ o.res.ok
        /\ cube = Some(o.res.val.geometry)
        /\ cache = o.res.val.cache
    /\ InitThreads
    /\ walk = Unused /\ stack = Unused /\ align = Unused
    /\ OthersUnused

\* Frame indices and pixel positions a caller may pass: every valid frame,
\* the first invalid one, and a pixel inside and outside on each axis.
NextCache ==
    \E t \in Threads :
        \/ \E z \in 0..CubeDepth : GetFrameCall(t, z, MaxCalls)
        \/ AcquireLock(t)
        \/ CacheLookup(t)
        \/ DecodeStep(t)
        \/ CacheInsert(t)
        \/ ClearCacheCall(t, MaxCalls)
        \/ CacheClear(t)
        \/ \E p \in {<<0, 0>>, <<cube[1].naxis2, 0>>, <<0, cube[1].naxis1>>} :
              ExtractSpectrumAt(t, p[1], p[2], MaxCalls)

SpecCache == InitCache /\ [][NextCache]_vars

\* ------------------------------------------------------ claims on SpecCache
CachedKeys == DOMAIN cache.entries

\* C1: after every sequence of get, insert and clear operations the number of
\* cached frames is at most max_entries, for every cache_frames that
\* open_with_cache accepts (0 included).
C1_CapacityNeverExceeded == Cardinality(CachedKeys) <= cache.max_entries

\* The true recency order and the last_access counters agree: recency lists
\* exactly the cached keys, by strictly increasing last_access.
RecencyMatchesCounters ==
    /\ Len(recency) = Cardinality(CachedKeys)
    /\ {recency[i] : i \in 1..Len(recency)} = CachedKeys
    /\ \A i, j \in 1..Len(recency) :
          i < j => cache.entries[recency[i]].last_access < cache.entries[recency[j]].last_access

\* What C2 says of one step of thread t.
LruStep(t) ==
    /\ (pc[t] = "insert" /\ pc'[t] = "idle") =>
          /\ lastEvicted' # None =>
                /\ lastEvicted'[1] = Head(recency)
                /\ lastEvicted'[1] \in CachedKeys
          /\ call[t].z \in CachedKeys =>
                lastEvicted' = None /\ DOMAIN cache'.entries = CachedKeys
          /\ DOMAIN cache'.entries =
                (CachedKeys \ {lastEvicted'[i] : i \in 1..Len(lastEvicted')}) \cup {call[t].z}
    /\ (pc[t] = "lookup" /\ pc'[t] = "decode") =>
          cache' = cache /\ recency' = recency
    /\ (pc[t] = "lookup" /\ pc'[t] = "idle") =>
          /\ DOMAIN cache'.entries = CachedKeys
          /\ \A k \in CachedKeys \ {call[t].z} :
                cache'.entries[k].last_access < cache'.entries[call[t].z].last_access

\* C2: whenever insert evicts, the evicted frame is the one whose most recent
\* access (get hit or insert) is older than every other cached frame's; a get
\* hit makes the frame the most recently accessed, a get miss changes
\* nothing, and inserting a key that is already cached evicts nothing.
C2_EvictsLeastRecentlyAccessed ==
    /\ []RecencyMatchesCounters
    /\ [][\A t \in Threads : LruStep(t)]_vars

\* C2's case: the cache of capacity 2 holds frames 0 and 2 and has just evicted
\* frame 1, frame 0 having been hit after frame 1 was inserted.
C2_Witness ==
    /\ cache.max_entries = 2
    /\ lastEvicted = Some(1)
    /\ CachedKeys = {0, 2}
    /\ cache.access_counter = 4
    /\ cache.entries[0].last_access = 3

FrameOf(z) == DecodeFrame(cube[1], z).frame.val

ReturnsAskedFrame ==
    (ret # None /\ ret[1].call.op = "get_frame" /\ ret[1].res.ok)
        => ret[1].res.val = FrameOf(ret[1].call.z)
EntriesHoldTheirFrame == \A k \in CachedKeys : cache.entries[k].frame = FrameOf(k)
LockHolderRuns == lock # None => pc[lock[1]] \in {"lookup", "insert", "clear"}
NoDeadlock ==
    (\E t \in Threads : pc[t] # "idle") =>
        \E t \in Threads : \/ pc[t] \in {"lookup", "insert", "clear", "decode"}
                           \/ pc[t] \in {"lock_lookup", "lock_insert", "lock_clear"}
                              /\ lock = None

\* C3: under any interleaving of the three steps of concurrent get_frame
\* calls, every call returns the decoded data of the frame it asked for,
\* every cache entry under key z holds frame z, the capacity bound is
\* respected and no call deadlocks.
C3_ConcurrentGetFrame ==
    /\ ReturnsAskedFrame
    /\ EntriesHoldTheirFrame
    /\ Cardinality(CachedKeys) <= cache.max_entries
    /\ LockHolderRuns /\ NoDeadlock

\* C3 without its capacity conjunct (which C1 refutes for cache_frames = 0).
C3_AllButCapacity ==
    ReturnsAskedFrame /\ EntriesHoldTheirFrame /\ LockHolderRuns /\ NoDeadlock

\* What C7 says of one step.
OutOfRangeStep ==
    ret' # None =>
        LET c == ret'[1].call IN
        /\ (c.op = "get_frame" /\ c.z >= cube[1].naxis3) =>
              /\ ~ret'[1].res.ok
              /\ mmapReads' = 0
              /\ cache' = cache /\ recency' = recency
        /\ (c.op = "extract_spectrum_at" /\ (c.y >= cube[1].naxis2 \/ c.x >= cube[1].naxis1)) =>
              ~ret'[1].res.ok /\ mmapReads' = 0

\* C7: get_frame(z) with z >= depth returns an out-of-range error without
\* reading the mapping and without changing the cache contents or their
\* recency order; extract_spectrum_at(y, x) with y >= H or x >= W returns an
\* error instead of reading.
C7_OutOfRangeRejected ==
    /\ [](\A t \in Threads : call[t].op = "get_frame" => call[t].z < cube[1].naxis3)
    /\ [][OutOfRangeStep]_vars

\* C7's case: get_frame(depth) has just returned an error on a cube whose
\* cache holds frames.
C7_Witness ==
    /\ ret # None /\ ret[1].call.op = "get_frame" /\ ret[1].call.z >= cube[1].naxis3
    /\ ~ret[1].res.ok
    /\ Cardinality(CachedKeys) = 2

\* -------------------------------------------------- specification: SpecWalk
\* One decode entry point applied to any file of Files; after a successful
\* LazyCube::open, the accessors called on the cube (thread 1 is the caller).
InitWalk ==
    /\ mmap \in Files
    /\ cube = None
    /\ cache = Unused
    /\ InitThreads
    /\ walk = None
    /\ stack = Unused /\ align = Unused
    /\ OthersUnused

EntryPoint(op, out) ==
    /\ walk = None /\ cube = None
    /\ walk' = Some([op |-> op, out |-> out])
    /\ UNCHANGED <<mmap, lock, pc, call, tframe, ret, calls, mmapReads,
                   recency, lastEvicted, stack, align, otherVars>>

\* parse_header_at at the start of the i-th HDU, as the walkers call it
\* (offset < mmap.len()).
ParseHeaderAt(i) ==
    /\ i \in 1..Len(mmap.hdus)
    /\ HduStart(mmap.hdus, i) < mmap.len
    /\ LET offset == HduStart(mmap.hdus, i) IN
       EntryPoint("parse_header_at", WalkOut(parse_header_at(mmap, offset), <<>>, Some(offset)))
    /\ UNCHANGED <<cube, cache>>

ExtractImage ==
    /\ EntryPoint("extract_image_mmap", extract_image_mmap(mmap))
    /\ UNCHANGED <<cube, cache>>

ExtractCube ==
    /\ EntryPoint("extract_cube_mmap", extract_cube_mmap(mmap))
    /\ UNCHANGED <<cube, cache>>

\* LazyCube::open(path): on success the cube and its cache exist.
Open ==
    /\ walk = None /\ cube = None
    /\ walk' = Some([op |-> "open", out |-> open(mmap)])
    /\ cube' = (IF walk'[1].out.res.ok THEN Some(walk'[1].out.res.val.geometry) ELSE None)
    /\ cache' = (IF walk'[1].out.res.ok THEN walk'[1].out.res.val.cache ELSE cache)
    /\ UNCHANGED <<mmap, lock, pc, call, tframe, ret, calls, mmapReads,
                   recency, lastEvicted, stack, align, otherVars>>

NextWalk ==
    \/ \E i \in 1..MaxHdus : ParseHeaderAt(i)
    \/ ExtractImage
    \/ ExtractCube
    \/ Open
    \/ cube # None /\ \E z \in 0..cube[1].naxis3 : GetFrameCall(1, z, WalkCalls)
    \/ AcquireLock(1)
    \/ CacheLookup(1)
    \/ DecodeStep(1)
    \/ CacheInsert(1)
    \/ cube # None /\ \E p \in {<<0, 0>>, <<cube[1].naxis2, 0>>, <<0, cube[1].naxis1>>} :
          ExtractSpectrumAt(1, p[1], p[2], WalkCalls)
    \/ cube # None /\ \E r \in {<<0, 1>>, <<0, cube[1].naxis3>>, <<1, cube[1].naxis3 + 1>>, <<1, 1>>} :
          GetFrameRange(1, r[1], r[2], WalkCalls)

SpecWalk == InitWalk /\ [][NextWalk]_vars

\* ------------------------------------------------------- claims on SpecWalk
\* What the file holds, read off its layout and not off the parser.
ImageLike(h) == h.naxis >= 2 /\ h.n1 > 1 /\ h.n2 > 1
CubeLike(h) == h.naxis = 3 /\ h.n3 > 1
FirstIndex(hdus, Q(_)) ==
    IF \E i \in 1..Len(hdus) : Q(hdus[i])
    THEN Some(CHOOSE i \in 1..Len(hdus) : Q(hdus[i]) /\ \A j \in 1..(i - 1) : ~Q(hdus[j]))
    ELSE None

HeaderComplete(m, i) == HduDataStart(m.hdus, i) <= m.len
WellFormed(m, i) ==
    /\ HeaderComplete(m, i)
    /\ m.hdus[i].bitpix # None
    /\ m.hdus[i].bitpix[1] \in {8, 16, 32, -32, -64}
    /\ HduDataStart(m.hdus, i) + HduDataBytes(m.hdus[i]) <= m.len

WalkOp(op) == walk # None /\ walk[1].op = op
IndexAt(offset) == CHOOSE i \in 1..Len(mmap.hdus) : HduStart(mmap.hdus, i) = offset

\* C4: for every header parse_header_at parses, data_offset(header_start)
\* equals the data_start it returns, the first block boundary after the block
\* holding END; and the offset a LazyCube records is that data_start.
C4_DataOffsetIsDataStart ==
    /\ (WalkOp("parse_header_at") /\ walk[1].out.res.ok) =>
          LET p == walk[1].out.res.val IN
          /\ p.data_start = HduDataStart(mmap.hdus, IndexAt(p.header_start))
          /\ data_offset(p.header, p.header_start) = p.data_start
    /\ (WalkOp("open") /\ walk[1].out.res.ok) =>
          cube[1].data_offset = HduDataStart(mmap.hdus, IndexAt(walk[1].out.at[1]))

\* What C5 says of a walk that selects by Q and returns a cube (cubeShape) or
\* one plane.
ReturnsFirst(Q(_), cubeShape) ==
    LET w == walk[1].out
        hdus == mmap.hdus
        first == FirstIndex(hdus, Q)
    IN  /\ Len(w.skipped) <= Len(hdus)
        /\ \A k \in 1..Len(w.skipped) :
              /\ w.skipped[k] = HduStart(hdus, k)
              /\ ~Q(hdus[k])
        /\ w.at # None => w.at[1] = HduStart(hdus, Len(w.skipped) + 1)
        /\ w.res.ok =>
              /\ first # None
              /\ LET h == hdus[first[1]] IN
                 /\ w.at = Some(HduStart(hdus, first[1]))
                 /\ Len(w.skipped) = first[1] - 1
                 /\ w.res.val.shape = (IF cubeShape THEN <<h.n3, h.n2, h.n1>> ELSE <<h.n2, h.n1>>)
                 /\ w.res.val.pixels =
                       [src |-> HduDataStart(hdus, first[1]),
                        bpp |-> Abs(h.bitpix[1]) \div 8,
                        n |-> Product(w.res.val.shape)]
        /\ (first # None /\ WellFormed(mmap, first[1])) => w.res.ok

\* C5: extract_image_mmap returns the pixels of the first HDU in file order
\* with NAXIS >= 2, NAXIS1 > 1, NAXIS2 > 1 and extract_cube_mmap those of the
\* first HDU with NAXIS = 3, NAXIS3 > 1; every earlier HDU is skipped by
\* moving to the next block boundary after its data, and no later HDU is
\* returned in place of an earlier qualifying one.
C5_WalkReturnsFirstQualifying ==
    /\ WalkOp("extract_image_mmap") => ReturnsFirst(ImageLike, FALSE)
    /\ WalkOp("extract_cube_mmap") => ReturnsFirst(CubeLike, TRUE)

\* C5's case: extract_image_mmap has returned the image that follows a
\* skipped HDU whose 3000 data bytes end inside a block.
C5_Witness ==
    /\ WalkOp("extract_image_mmap")
    /\ walk[1].out.res.ok
    /\ Len(walk[1].out.skipped) = 1
    /\ HduDataBytes(mmap.hdus[1]) % BLOCK_SIZE # 0
    /\ walk[1].out.res.val.pixels.src = HduDataStart(mmap.hdus, 2)

\* C6: every decode entry point returns an error, never pixel values, when
\* the HDU it selects has a truncated header, no BITPIX card, a BITPIX
\* outside {8, 16, 32, -32, -64} or data that runs past the end of the file.
C6_MalformedHduRejected ==
    LET image == FirstIndex(mmap.hdus, ImageLike)
        cube3d == FirstIndex(mmap.hdus, CubeLike)
    IN  /\ (WalkOp("extract_image_mmap") /\ image # None /\ ~WellFormed(mmap, image[1]))
              => ~walk[1].out.res.ok
        /\ ((WalkOp("extract_cube_mmap") \/ WalkOp("open"))
                /\ cube3d # None /\ ~WellFormed(mmap, cube3d[1]))
              => ~walk[1].out.res.ok
        /\ (ret # None /\ cube3d # None /\ ~WellFormed(mmap, cube3d[1]))
              => ~ret[1].res.ok

\* --------------------------------------------------------- domain/stacking.rs
\* A pixel is NaN or a finite value; the finite values of the model are
\* integers and every mean is an exact fraction in lowest terms, so the f64
\* sums and the `as f32` conversions of the code lose nothing here.
NaN == <<>>
Fin(v) == <<v>>
is_finite(p) == p # NaN

RECURSIVE Gcd(_, _)
Gcd(a, b) == IF b = 0 THEN a ELSE Gcd(b, a % b)
Ratio(num, den) ==
    LET g == Gcd(Abs(num), den) IN [num |-> num \div g, den |-> den \div g]

\* Array2<f32>: dim() = (rows, cols), row-major pixels.
Frame(rows, cols, px) == [rows |-> rows, cols |-> cols, px |-> px]
dim(f) == <<f.rows, f.cols>>
At(f, y, x) == f.px[y * f.cols + x + 1]

RECURSIVE Sum(_)
Sum(vs) == IF vs = <<>> THEN 0 ELSE Head(vs) + Sum(Tail(vs))
SumSq(vs) == Sum([i \in 1..Len(vs) |-> vs[i] * vs[i]])

\* A slip in the mean: the sum divided by n - 1.
MeanOf_n_minus_1(vs) == Ratio(Sum(vs), Max(Len(vs) - 1, 1))

\* iter().sum::<f64>() / len as f64, then as f32.
MeanOf(vs) == Ratio(Sum(vs), Len(vs))

\* dev <= k * sigma, for dev = D / n and sigma = max(sqrt(SS / (n^2 m)), 1e-10),
\* where D = n v - sum, SS = sum of the D^2 and m = max(n - 1, 1).  With
\* SS = 0 every D is 0 and sigma is the floor 1e-10.
DevAtMost(D, k, SS, m) ==
    IF SS = 0 THEN D < 0 \/ (D = 0 /\ k >= 0)
    ELSE IF k >= 0 THEN D <= 0 \/ D * D * m <= k * k * SS
    ELSE D < 0 /\ D * D * m >= k * k * SS

\* The closure of active.retain: dev >= -sigma_low * sigma && dev <= sigma_high * sigma.
Retained(active, sigma_low, sigma_high) ==
    LET n == Len(active)
        S == Sum(active)
        D(v) == n * v - S
        SS == SumSq([i \in 1..n |-> D(active[i])])
        m == Max(n - 1, 1)
    IN  SelectSeq(active, LAMBDA v : /\ DevAtMost(-D(v), sigma_low, SS, m)
                                     /\ DevAtMost(D(v), sigma_high, SS, m))

RECURSIVE ClipLoop(_, _, _, _, _)
ClipLoop(active, rejected, sigma_low, sigma_high, iters_left) ==
    IF iters_left = 0 \/ Len(active) < 2 THEN [active |-> active, rejected |-> rejected]
    ELSE LET kept == Retained(active, sigma_low, sigma_high)
             removed == Len(active) - Len(kept)
         IN  IF removed = 0 THEN [active |-> kept, rejected |-> rejected]
             ELSE ClipLoop(kept, rejected + removed, sigma_low, sigma_high, iters_left - 1)

sigma_clip_combine(values, sigma_low, sigma_high, max_iter) ==
    IF values = <<>> THEN [mean |-> Ratio(0, 1), rejected |-> 0]
    ELSE IF Len(values) = 1 THEN [mean |-> Ratio(values[1], 1), rejected |-> 0]
    ELSE LET r == ClipLoop(values, 0, sigma_low, sigma_high, max_iter) IN
         IF r.active = <<>> THEN [mean |-> MeanOf(values), rejected |-> r.rejected]
         ELSE [mean |-> MeanOf(r.active), rejected |-> r.rejected]

\* A slip in the target index: the offset subtracted instead of added.
TargetIndex_subtracted(i, d) == i - d

\* let ty = y as i32 + dy (and tx likewise).
TargetIndex(i, d) == i + d

\* The sums compute_offset accumulates for the candidate (dy, dx) over the
\* centred region: [sum_prod, sum_r2, sum_t2, count].
RECURSIVE Correlate(_, _, _, _, _)
Correlate(reference, target, dy, dx, pts) ==
    IF pts = <<>> THEN [sum_prod |-> 0, sum_r2 |-> 0, sum_t2 |-> 0, count |-> 0]
    ELSE LET rest == Correlate(reference, target, dy, dx, Tail(pts))
             y == Head(pts)[1]
             x == Head(pts)[2]
             ty == TargetIndex(y, dy)
             tx == TargetIndex(x, dx)
         IN  IF ty < 0 \/ ty >= reference.rows \/ tx < 0 \/ tx >= reference.cols THEN rest
             ELSE LET r == At(reference, y, x)
                      t == At(target, ty, tx)
                  IN  IF is_finite(r) /\ is_finite(t)
                      THEN [sum_prod |-> rest.sum_prod + r[1] * t[1],
                            sum_r2 |-> rest.sum_r2 + r[1] * r[1],
                            sum_t2 |-> rest.sum_t2 + t[1] * t[1],
                            count |-> rest.count + 1]
                      ELSE rest

\* score = sum_prod / sqrt(sum_r2 * sum_t2) if the denominator exceeds 1e-10,
\* else 0.0; kept as the pair (p, q) standing for p / sqrt(q), q > 0.
Score(c) ==
    IF c.sum_r2 * c.sum_t2 > 0 THEN [p |-> c.sum_prod, q |-> c.sum_r2 * c.sum_t2]
    ELSE [p |-> 0, q |-> 1]

\* score > best_score; best_score starts at f64::MIN, below every score.
ScoreGreater(s, best) ==
    best = None \/ s.p * Abs(s.p) * best[1].q > best[1].p * Abs(best[1].p) * s.q

\* for y in y_start..y_end { for x in x_start..x_end
RegionPoints(rows, cols) ==
    LET cy == rows \div 2
        cx == cols \div 2
        region == Min(Min(rows, cols), 256) \div 2
        y_start == Max(cy - region, 0)
        y_end == Min(cy + region, rows)
        x_start == Max(cx - region, 0)
        x_end == Min(cx + region, cols)
        w == x_end - x_start
    IN  [i \in 1..((y_end - y_start) * w) |->
            <<y_start + ((i - 1) \div w), x_start + ((i - 1) % w)>>]

\* The candidates in scan order: dy outermost, both ascending.  A candidate
\* with |dy| >= rows or |dx| >= cols has count = 0 and changes nothing, so
\* only the others are listed.
Candidates(rows, cols, search_radius) ==
    LET ry == Min(search_radius, rows - 1)
        rx == Min(search_radius, cols - 1)
        w == 2 * rx + 1
    IN  [i \in 1..((2 * ry + 1) * w) |-> <<((i - 1) \div w) - ry, ((i - 1) % w) - rx>>]

RECURSIVE BestOffset(_, _, _, _, _)
BestOffset(reference, target, cands, best_score, best) ==
    IF cands = <<>> THEN best
    ELSE LET c == Correlate(reference, target, Head(cands)[1], Head(cands)[2],
                            RegionPoints(reference.rows, reference.cols))
         IN  IF c.count > 0 /\ ScoreGreater(Score(c), best_score)
             THEN BestOffset(reference, target, Tail(cands), Some(Score(c)), Head(cands))
             ELSE BestOffset(reference, target, Tail(cands), best_score, best)

compute_offset(reference, target, search_radius) ==
    IF dim(target) # dim(reference) THEN <<0, 0>>
    ELSE BestOffset(reference, target,
                    Candidates(reference.rows, reference.cols, search_radius),
                    None, <<0, 0>>)

shift_image(image, dy, dx) ==
    Frame(image.rows, image.cols,
          [i \in 1..(image.rows * image.cols) |->
              LET y == (i - 1) \div image.cols
                  x == (i - 1) % image.cols
                  sy == y - dy
                  sx == x - dx
              IN  IF sy < 0 \/ sy >= image.rows \/ sx < 0 \/ sx >= image.cols THEN NaN
                  ELSE At(image, sy, sx)])

StackConfig(sigma_low, sigma_high, max_iterations, align_on) ==
    [sigma_low |-> sigma_low, sigma_high |-> sigma_high,
     max_iterations |-> max_iterations, align |-> align_on]

\* The finite values of pixel i across the aligned frames, unwrapped.
RECURSIVE FiniteValues(_, _)
FiniteValues(aligned, i) ==
    IF aligned = <<>> THEN <<>>
    ELSE (IF is_finite(Head(aligned).px[i]) THEN <<Head(aligned).px[i][1]>> ELSE <<>>)
         \o FiniteValues(Tail(aligned), i)

stack_images(images, config) ==
    IF images = <<>> THEN Err("No images to stack")
    ELSE LET reference == images[1]
             n == Len(images)
             mismatched == {i \in 2..n : dim(images[i]) # dim(reference)}
         IN
         IF mismatched # {} THEN Err("Image dimension mismatch")
         ELSE LET offsets == [i \in 1..n |->
                                 IF i > 1 /\ config.align
                                 THEN compute_offset(reference, images[i], SearchRadius)
                                 ELSE <<0, 0>>]
                  aligned == [i \in 1..n |->
                                 IF i > 1 /\ config.align
                                 THEN shift_image(images[i], offsets[i][1], offsets[i][2])
                                 ELSE images[i]]
                  npix == reference.rows * reference.cols
                  pixel_results == [i \in 1..npix |->
                                       sigma_clip_combine(FiniteValues(aligned, i),
                                           config.sigma_low, config.sigma_high,
                                           config.max_iterations)]
              IN  Ok([image |-> Frame(reference.rows, reference.cols,
                                      [i \in 1..npix |-> pixel_results[i].mean]),
                      frame_count |-> n,
                      rejected_pixels |-> Sum([i \in 1..npix |-> pixel_results[i].rejected]),
                      offsets |-> offsets])

\* ------------------------------------------------- specification: SpecStack
\* stack_images and sigma_clip_combine applied once to a list of frames of
\* two pixels and a configuration.
Copies(f, n) == [i \in 1..n |-> f]
PixelsOf(S) == {NaN} \cup {Fin(v) : v \in S}

\* n copies of one frame.
IdenticalFrames ==
    {[images |-> Copies(Frame(1, 2, <<a, b>>), n), outlier |-> None] :
        a \in PixelsOf({0, 10}), b \in PixelsOf({10, 500}), n \in 1..MaxN}

\* The consistent values of the i-th frame: nearly equal (10, 11, 9, 10, ...)
\* or equal (1, in units in which the outlier 500 stands for 50000 among 100).
NearValue(pattern, i) ==
    IF pattern = "equal" THEN 1
    ELSE IF i % 4 = 2 THEN 11 ELSE IF i % 4 = 3 THEN 9 ELSE 10

\* n frames whose first pixel holds the consistent values, but 500 in frame k
\* (k = 0: in no frame); the second pixel is the same in every frame.
OutlierFrames ==
    {[images |-> [i \in 1..n |->
                    Frame(1, 2, <<Fin(IF i = k THEN 500 ELSE NearValue(pattern, i)),
                                  Fin(NearValue(pattern, 1))>>)],
      outlier |-> IF k = 0 THEN None ELSE Some(k)] :
        pattern \in {"equal", "near"}, n \in 2..MaxN, k \in 0..MaxN}

\* No frames, and frames of differing dimensions.
RejectedFrames ==
    {[images |-> imgs, outlier |-> None] :
        imgs \in {<<>>,
                  <<Frame(1, 2, <<Fin(10), Fin(10)>>), Frame(2, 1, <<Fin(10), Fin(10)>>)>>,
                  <<Frame(1, 2, <<Fin(10), Fin(10)>>), Frame(1, 2, <<Fin(10), Fin(10)>>),
                    Frame(1, 1, <<Fin(10)>>)>>}}

Sigmas == {<<DefaultSigma, DefaultSigma>>, <<2, 2>>, <<0, 0>>, <<-1, DefaultSigma>>, <<DefaultSigma, -1>>}
Configs ==
    {StackConfig(k[1], k[2], it, a) : k \in Sigmas, it \in {0, 1, DefaultMaxIter}, a \in BOOLEAN}

InitStack ==
    /\ \E in \in IdenticalFrames \cup {o \in OutlierFrames :
                                         o.outlier = None \/ o.outlier[1] <= Len(o.images)}
                 \cup RejectedFrames :
       \E config \in Configs :
          stack = [images |-> in.images, outlier |-> in.outlier, config |-> config,
                   clip |-> None, result |-> None]
    /\ mmap = Unused /\ cube = Unused /\ cache = Unused
    /\ InitThreads
    /\ walk = Unused /\ align = Unused
    /\ OthersUnused

\* sigma_clip_combine on the finite values of the first pixel of the frames.
SigmaClipCombine ==
    /\ stack.clip = None /\ stack.images # <<>>
    /\ stack' = [stack EXCEPT !.clip =
           Some(sigma_clip_combine(FiniteValues(stack.images, 1), stack.config.sigma_low,
                                   stack.config.sigma_high, stack.config.max_iterations))]
    /\ UNCHANGED <<mmap, cubeVars, walk, align, otherVars>>

StackImages ==
    /\ stack.result = None
    /\ stack' = [stack EXCEPT !.result = Some(stack_images(stack.images, stack.config))]
    /\ UNCHANGED <<mmap, cubeVars, walk, align, otherVars>>

NextStack == SigmaClipCombine \/ StackImages

SpecStack == InitStack /\ [][NextStack]_vars

\* ------------------------------------------------------ claims on SpecStack
\* The first-pixel values of the frames other than the outlier's.
ConsistentValues ==
    {stack.images[i].px[1][1] : i \in (1..Len(stack.images)) \ {stack.outlier[1]}}
InSpread(mean) ==
    /\ \E v \in ConsistentValues : v * mean.den <= mean.num
    /\ \E v \in ConsistentValues : mean.num <= v * mean.den

\* C8: with sigma_low = sigma_high = 3 and max_iterations = 5, for every
\* N >= 5, given N - 1 equal or nearly equal values and one value far above
\* them, sigma_clip_combine -- and stack_images with align off at that pixel
\* -- reports at least one rejected sample and returns a mean within the
\* spread of the N - 1 consistent values.
C8_SingleOutlierRejected ==
    (/\ stack.outlier # None
     /\ Len(stack.images) >= 5
     /\ stack.config.sigma_low = DefaultSigma /\ stack.config.sigma_high = DefaultSigma
     /\ stack.config.max_iterations = DefaultMaxIter)
    => /\ stack.clip # None =>
             stack.clip[1].rejected >= 1 /\ InSpread(stack.clip[1].mean)
       /\ (stack.result # None /\ ~stack.config.align) =>
             /\ stack.result[1].ok
             /\ stack.result[1].val.rejected_pixels >= 1
             /\ InSpread(stack.result[1].val.image.px[1])

\* stack_images has returned for N >= 1 copies of one frame, align off.
StackedIdentical ==
    /\ stack.images # <<>>
    /\ \A i \in 1..Len(stack.images) : stack.images[i] = stack.images[1]
    /\ ~stack.config.align
    /\ stack.result # None

\* C10 as stated: stack_images applied to N >= 1 copies of the same frame with
\* align off returns an image equal to that frame at every pixel, with
\* frame_count = N and rejected_pixels = 0.
C10_IdenticalFramesStackToFrame ==
    StackedIdentical =>
        /\ stack.result[1].ok
        /\ LET r == stack.result[1].val
               f == stack.images[1]
           IN  /\ dim(r.image) = dim(f)
               /\ \A i \in 1..Len(f.px) :
                     is_finite(f.px[i]) /\ r.image.px[i] = Ratio(f.px[i][1], 1)
               /\ r.frame_count = Len(stack.images)
               /\ r.rejected_pixels = 0

\* C10 amended: with sigma_low >= 0 and sigma_high >= 0, stack_images applied
\* to N >= 1 copies of the same frame with align off returns an image equal
\* to that frame at every finite pixel and 0 at every non-finite pixel, with
\* frame_count = N and rejected_pixels = 0.
C10_IdenticalFramesFinitePixels ==
    (StackedIdentical /\ stack.config.sigma_low >= 0 /\ stack.config.sigma_high >= 0) =>
        /\ stack.result[1].ok
        /\ LET r == stack.result[1].val
               f == stack.images[1]
           IN  /\ dim(r.image) = dim(f)
               /\ \A i \in 1..Len(f.px) :
                     r.image.px[i] = (IF is_finite(f.px[i]) THEN Ratio(f.px[i][1], 1)
                                      ELSE Ratio(0, 1))
               /\ r.frame_count = Len(stack.images)
               /\ r.rejected_pixels = 0

\* C10's case: three copies of a frame with a NaN and a finite pixel have
\* been stacked with the default sigmas and align off.
C10_Witness ==
    /\ StackedIdentical
    /\ Len(stack.images) = 3
    /\ stack.images[1].px = <<NaN, Fin(500)>>
    /\ stack.config.sigma_low = DefaultSigma /\ stack.config.sigma_high = DefaultSigma
    /\ stack.config.max_iterations = DefaultMaxIter
    /\ stack.result[1].ok

\* ------------------------------------------------- specification: SpecAlign
\* shift_image applied to a frame and compute_offset applied to the frame and
\* its shifted copy, for every shift within the search radius.
FramesOf(rows, cols, S) ==
    {Frame(rows, cols, px) : px \in [1..(rows * cols) -> S]}

AlignFrames ==
    FramesOf(1, 2, PixelsOf({-1, 0, 1}))
    \cup FramesOf(2, 2, PixelsOf({-1, 0, 1}))
    \cup FramesOf(2, 3, PixelsOf({0, 1}))
    \cup FramesOf(3, 3, {Fin(0), Fin(1)})

InitAlign ==
    /\ \E f \in AlignFrames, search_radius \in 0..MaxR :
       \E dy, dx \in (-search_radius)..search_radius :
          align = [frame |-> f, dy |-> dy, dx |-> dx, search_radius |-> search_radius,
                   target |-> None, result |-> None]
    /\ mmap = Unused /\ cube = Unused /\ cache = Unused
    /\ InitThreads
    /\ walk = Unused /\ stack = Unused
    /\ OthersUnused

ShiftImage ==
    /\ align.target = None
    /\ align' = [align EXCEPT !.target = Some(shift_image(align.frame, align.dy, align.dx))]
    /\ UNCHANGED <<mmap, cubeVars, walk, stack, otherVars>>

ComputeOffset ==
    /\ align.target # None /\ align.result = None
    /\ align' = [align EXCEPT !.result =
           Some(compute_offset(align.frame, align.target[1], align.search_radius))]
    /\ UNCHANGED <<mmap, cubeVars, walk, stack, otherVars>>

NextAlign == ShiftImage \/ ComputeOffset

SpecAlign == InitAlign /\ [][NextAlign]_vars

\* ------------------------------------------------------ claims on SpecAlign
\* The points of the centred region at which the candidate c pairs a finite
\* reference pixel with a finite pixel of the shifted frame.
PairedPoints(c) ==
    LET f == align.frame
        pts == RegionPoints(f.rows, f.cols)
    IN  {p \in {pts[i] : i \in 1..Len(pts)} :
            /\ p[1] + c[1] \in 0..(f.rows - 1)
            /\ p[2] + c[2] \in 0..(f.cols - 1)
            /\ is_finite(At(f, p[1], p[2]))
            /\ is_finite(At(align.target[1], p[1] + c[1], p[2] + c[2]))}
RefAt(p) == At(align.frame, p[1], p[2])[1]
TgtAt(p, c) == At(align.target[1], p[1] + c[1], p[2] + c[2])[1]

\* At candidate c the paired pixels of the shifted frame are a positive
\* multiple of the reference's, neither being all zero.
PositivelyProportional(c) ==
    LET P == PairedPoints(c) IN
    /\ \E a \in P : RefAt(a) * TgtAt(a, c) > 0
    /\ \A a, b \in P : RefAt(a) * TgtAt(b, c) = RefAt(b) * TgtAt(a, c)

ScannedBefore(c, d) == c[1] < d[1] \/ (c[1] = d[1] /\ c[2] < d[2])
TrueShift == <<align.dy, align.dx>>

\* The true shift pairs a nonzero pixel, and no candidate scanned before it
\* pairs positively proportional pixels.
Recoverable ==
    /\ \E a \in PairedPoints(TrueShift) : RefAt(a) # 0
    /\ \A c1, c2 \in (-align.search_radius)..align.search_radius :
          ScannedBefore(<<c1, c2>>, TrueShift) => ~PositivelyProportional(<<c1, c2>>)

ChannelCount(r_channel, g_channel, b_channel) ==
    Len(r_channel) + Len(g_channel) + Len(b_channel)

\* Option::or.
or(a, b) == IF a # None THEN a ELSE b

\* A slip in the dimension check: only the row counts are compared.
ChannelMismatch_rows_only(arr, rows, cols) == arr.rows # rows

\* compose_rgb's dimension check of one present channel against the
\* reference channel's (rows, cols).
ChannelMismatch(arr, rows, cols) == arr.rows # rows \/ arr.cols # cols

\* The name of the first present channel whose dimensions differ, if any.
FirstMismatch(r_channel, g_channel, b_channel, rows, cols) ==
    IF r_channel # None /\ ChannelMismatch(r_channel[1], rows, cols) THEN Some("R")
    ELSE IF g_channel # None /\ ChannelMismatch(g_channel[1], rows, cols) THEN Some("G")
    ELSE IF b_channel # None /\ ChannelMismatch(b_channel[1], rows, cols) THEN Some("B")
    ELSE None

\* The outcomes of img.save: the PNG written, or an I/O error that leaves no
\* file or part of one.
SaveOutcomes == {"saved", "failed", "failed_partial"}

\* compose_rgb, its result and the file at output_path afterwards (None: no
\* file written).  The stretch of the pixels is left to stf.rs; the image is
\* carried by its width and height.
compose_rgb(r_channel, g_channel, b_channel, output_path, config, save) ==
    LET count == ChannelCount(r_channel, g_channel, b_channel) IN
    IF count < 2
    THEN [res |-> Err("Need at least 2 channels for RGB compose"), file |-> None]
    ELSE LET ref_channel == or(or(r_channel, g_channel), b_channel)[1]
             rows == ref_channel.rows
             cols == ref_channel.cols
         IN
         IF FirstMismatch(r_channel, g_channel, b_channel, rows, cols) # None
         THEN [res |-> Err("Channel has dimensions other than expected"), file |-> None]
         ELSE IF save = "saved"
         THEN [res |-> Ok([png_path |-> output_path, width |-> cols, height |-> rows,
                           scnr_applied |-> config.scnr # None]),
               file |-> Some([path |-> output_path, width |-> cols, height |-> rows])]
         ELSE [res |-> Err("Failed to save RGB image"),
               file |-> IF save = "failed_partial"
                        THEN Some([path |-> output_path, width |-> 0, height |-> 0])
                        ELSE None]

\* ------------------------------------------------ specification: SpecReject
\* stack_images applied once to a list of up to MaxList frames and
\* compose_rgb applied once to three optional channels, the frames and
\* channels of equal or of differing dimensions.
MaxList == 2

DimFrames == {Frame(d[1], d[2], [i \in 1..(d[1] * d[2]) |-> Fin(10)]) :
                d \in {<<1, 1>>, <<1, 2>>, <<2, 1>>}}
Channels == {None} \cup {Some(f) : f \in DimFrames}

InitReject ==
    /\ \E images \in SeqsUpTo(DimFrames, MaxList), a \in BOOLEAN :
          stack = [images |-> images, outlier |-> None,
                   config |-> StackConfig(DefaultSigma, DefaultSigma, DefaultMaxIter, a),
                   clip |-> None, result |-> None]
    /\ \E r \in Channels, g \in Channels, b \in Channels, scnr \in {None, Some("average")} :
          rgb = [r |-> r, g |-> g, b |-> b, output_path |-> "out.png",
                 config |-> [scnr |-> scnr], result |-> None, file |-> None]
    /\ mmap = Unused /\ cube = Unused /\ cache = Unused
    /\ InitThreads
    /\ walk = Unused /\ align = Unused
    /\ calib = Unused /\ display = Unused /\ batch = Unused

ComposeRgb ==
    /\ rgb.result = None
    /\ \E save \in SaveOutcomes :
          LET out == compose_rgb(rgb.r, rgb.g, rgb.b, rgb.output_path, rgb.config, save)
          IN  rgb' = [rgb EXCEPT !.result = Some(out.res), !.file = out.file]
    /\ UNCHANGED <<mmap, cubeVars, walk, stack, align, calib, display, batch>>

NextReject == StackImages \/ ComposeRgb

SpecReject == InitReject /\ [][NextReject]_vars

\* ----------------------------------------------------- claims on SpecReject
\* The list of frames is empty or holds a frame whose dimensions differ from
\* frame 0's.
BadFrameList ==
    \/ stack.images = <<>>
    \/ \E i \in 1..Len(stack.images) : dim(stack.images[i]) # dim(stack.images[1])

PresentChannels == {ch \in {rgb.r, rgb.g, rgb.b} : ch # None}
ReferenceChannel == or(or(rgb.r, rgb.g), rgb.b)

\* Fewer than two channels are present, or a present channel's dimensions
\* differ from the reference channel's.
BadChannels ==
    \/ ChannelCount(rgb.r, rgb.g, rgb.b) < 2
    \/ \E ch \in PresentChannels : dim(ch[1]) # dim(ReferenceChannel[1])

\* A result that is an error and carries no value.
IsError(res) == ~res.ok /\ DOMAIN res = {"ok", "err"}

\* C11: stack_images fails on an empty list and on any frame whose
\* dimensions differ from frame 0's; compose_rgb fails when fewer than two
\* channels are present or a present channel's dimensions differ from the
\* reference channel's; in every such case the result is an error, no image
\* is returned and no file is written.
C11_BadInputsRejected ==
    /\ (stack.result # None /\ BadFrameList) => IsError(stack.result[1])
    /\ BadChannels => rgb.file = None
    /\ (rgb.result # None /\ BadChannels) => IsError(rgb.result[1])

\* Both operations have returned, stack_images from frames of differing
\* dimensions and compose_rgb from two channels of differing column counts.
C11_Witness ==
    /\ stack.result # None /\ Len(stack.images) = 2 /\ BadFrameList
    /\ rgb.result # None /\ rgb.r # None /\ rgb.g # None /\ rgb.b = None
    /\ rgb.r[1].rows = rgb.g[1].rows /\ rgb.r[1].cols # rgb.g[1].cols


\* ------------------------------------------------------------ calibration.rs
\* f32 pixels as exact fractions: NaN, or Fin of a fraction in lowest terms
\* with a positive denominator.  The values of the inputs are small, so the
\* f32 operations of the code lose nothing here.
Q(n, d) == Fin(IF d < 0 THEN Ratio(-n, -d) ELSE Ratio(n, d))
Whole(n) == Q(n, 1)
fsub(a, b) ==
    IF a = NaN \/ b = NaN THEN NaN
    ELSE Q(a[1].num * b[1].den - b[1].num * a[1].den, a[1].den * b[1].den)
fmul(a, b) ==
    IF a = NaN \/ b = NaN THEN NaN
    ELSE Q(a[1].num * b[1].num, a[1].den * b[1].den)
\* a / b; x / 0 is infinite or NaN, not finite.
fdiv(a, b) ==
    IF a = NaN \/ b = NaN \/ b[1].num = 0 THEN NaN
    ELSE Q(a[1].num * b[1].den, a[1].den * b[1].num)
\* a < b on fractions.
flt(a, b) == a.num * b.den < b.num * a.den

\* A function that returns a value, or panics.
Completed(v) == [panicked |-> FALSE, val |-> v]
Panicked(msg) == [panicked |-> TRUE, msg |-> msg]

\* ndarray's shape of `&lhs op &rhs`: the shape of lhs with rhs broadcast to
\* it, or (co_broadcast, ndarray 0.15 and later) the common shape both
\* broadcast to; None if there is none, and the operator panics.
BroadcastAxis(a, b) == IF a = b \/ b = 1 THEN Some(a) ELSE IF a = 1 THEN Some(b) ELSE None
BroadcastShape(lhs, rhs, co_broadcast) ==
    LET r == BroadcastAxis(lhs.rows, rhs.rows)
        c == BroadcastAxis(lhs.cols, rhs.cols)
    IN  IF r = None \/ c = None THEN None
        ELSE IF ~co_broadcast /\ <<r[1], c[1]>> # dim(lhs) THEN None
        ELSE Some(<<r[1], c[1]>>)

\* The element of a broadcast to rows x cols at (y, x).
BroadcastAt(a, y, x) == At(a, IF a.rows = 1 THEN 0 ELSE y, IF a.cols = 1 THEN 0 ELSE x)

\* `&lhs - &rhs` of ndarray.
ArraySub(lhs, rhs, co_broadcast) ==
    LET shape == BroadcastShape(lhs, rhs, co_broadcast) IN
    IF shape = None THEN Panicked("could not broadcast array")
    ELSE Completed(Frame(shape[1][1], shape[1][2],
             [i \in 1..(shape[1][1] * shape[1][2]) |->
                 LET y == (i - 1) \div shape[1][2]
                     x == (i - 1) % shape[1][2]
                 IN  fsub(BroadcastAt(lhs, y, x), BroadcastAt(rhs, y, x))]))

\* `array * scalar` of ndarray.
ArrayScale(a, k) == Frame(a.rows, a.cols, [i \in 1..Len(a.px) |-> fmul(a.px[i], k)])

subtract_bias(img, master_bias, co_broadcast) == ArraySub(img, master_bias, co_broadcast)

subtract_dark(img, master_dark, exposure_ratio, co_broadcast) ==
    ArraySub(img, ArrayScale(master_dark, exposure_ratio), co_broadcast)

\* divide_flat's rule: flat_val.is_finite() && flat_val.abs() > 0.01.
FlatDivides(flat_val) ==
    is_finite(flat_val) /\ flt([num |-> 1, den |-> 100],
                               [num |-> Abs(flat_val[1].num), den |-> flat_val[1].den])

\* divide_flat: indexes master_flat at every pixel of the image, and panics
\* where master_flat has no such pixel.
divide_flat(img, master_flat) ==
    IF img.rows * img.cols > 0 /\ (master_flat.rows < img.rows \/ master_flat.cols < img.cols)
    THEN Panicked("index out of bounds")
    ELSE Completed(Frame(img.rows, img.cols,
             [i \in 1..(img.rows * img.cols) |->
                 LET y == (i - 1) \div img.cols
                     x == (i - 1) % img.cols
                     flat_val == At(master_flat, y, x)
                 IN  IF FlatDivides(flat_val) THEN fdiv(img.px[i], flat_val)
                     ELSE img.px[i]]))

CalibrationConfig(master_bias, master_dark, master_flat, dark_exposure_ratio) ==
    [master_bias |-> master_bias, master_dark |-> master_dark,
     master_flat |-> master_flat, dark_exposure_ratio |-> dark_exposure_ratio]

\* One step of calibrate_image on the outcome so far.
Then(outcome, step(_)) == IF outcome.panicked THEN outcome ELSE step(outcome.val)

calibrate_image(raw, config, co_broadcast) ==
    LET bias_step(c) == IF config.master_bias # None
                        THEN subtract_bias(c, config.master_bias[1], co_broadcast)
                        ELSE Completed(c)
        dark_step(c) == IF config.master_dark # None
                        THEN subtract_dark(c, config.master_dark[1],
                                           config.dark_exposure_ratio, co_broadcast)
                        ELSE Completed(c)
        flat_step(c) == IF config.master_flat # None
                        THEN divide_flat(c, config.master_flat[1])
                        ELSE Completed(c)
    IN  Then(Then(Then(Completed(raw), bias_step), dark_step), flat_step)


\* load_fits_image: a path is modelled by what loading it gives, the image
\* of the file or the error of File::open / extract_image_mmap.
Unreadable == Err("Failed to load")
load_fits_image(path) == path

fadd(a, b) ==
    IF a = NaN \/ b = NaN THEN NaN
    ELSE Q(a[1].num * b[1].den + b[1].num * a[1].den, a[1].den * b[1].den)
RECURSIVE FSum(_)
FSum(vs) == IF vs = <<>> THEN Whole(0) ELSE fadd(Head(vs), FSum(Tail(vs)))

\* vals[mid] after select_nth_unstable_by(mid): the element of rank mid.
SelectNth(vals, mid) ==
    CHOOSE v \in {vals[j] : j \in 1..Len(vals)} :
        /\ Cardinality({j \in 1..Len(vals) : flt(vals[j][1], v[1])}) <= mid
        /\ mid < Cardinality({j \in 1..Len(vals) : ~flt(v[1], vals[j][1])})

\* The finite values of element i of the frames' slices.
RECURSIVE Column(_, _)
Column(frames, i) ==
    IF frames = <<>> THEN <<>>
    ELSE (IF is_finite(Head(frames).px[i]) THEN <<Head(frames).px[i]>> ELSE <<>>)
         \o Column(Tail(frames), i)

\* The per-pixel median of the columns, 0.0 for an empty column.
MedianColumns(frames, npix) ==
    [i \in 1..npix |->
        LET vals == Column(frames, i) IN
        IF vals = <<>> THEN Whole(0) ELSE SelectNth(vals, Len(vals) \div 2)]

\* The value of an expression bound once: TheOne({e(x) : x \in {v}}) is e(v).
TheOne(S) == CHOOSE r \in S : TRUE

\* One frame of the loop of create_master_dark / _flat, reduced by the
\* masters given.
Reduce(frame, master_bias, master_dark, co_broadcast) ==
    TheOne({IF debiased.panicked \/ master_dark = None THEN debiased
            ELSE subtract_dark(debiased.val, master_dark[1], Whole(1), co_broadcast) :
        debiased \in {IF master_bias # None
                      THEN subtract_bias(frame, master_bias[1], co_broadcast)
                      ELSE Completed(frame)}})

\* The loop of create_master_bias / _dark / _flat over the paths: each frame
\* loaded, checked against the first frame's (rows, cols), and reduced by the
\* masters given.  Stops at the first error or panic.
RECURSIVE MasterFrames(_, _, _, _, _, _, _)
MasterFrames(paths, rows, cols, master_bias, master_dark, co_broadcast, frames) ==
    IF paths = <<>> THEN Completed(Ok(frames))
    ELSE TheOne({
        IF ~loaded.ok THEN Completed(loaded)
        ELSE IF dim(loaded.val) # <<rows, cols>> THEN Completed(Err("Dimension mismatch"))
        ELSE TheOne({IF reduced.panicked THEN reduced
                     ELSE MasterFrames(Tail(paths), rows, cols, master_bias, master_dark,
                                       co_broadcast, Append(frames, reduced.val)) :
                 reduced \in {Reduce(loaded.val, master_bias, master_dark, co_broadcast)}}) :
        loaded \in {load_fits_image(Head(paths))}})

\* The median master of the paths, before any normalisation.
MedianMaster(paths, master_bias, master_dark, co_broadcast, empty_msg) ==
    IF paths = <<>> THEN Completed(Err(empty_msg))
    ELSE TheOne({
        IF ~first.ok THEN Completed(first)
        ELSE TheOne({IF frames.panicked \/ ~frames.val.ok THEN frames
                     ELSE Completed(Ok(Frame(first.val.rows, first.val.cols,
                              MedianColumns(frames.val.val,
                                            first.val.rows * first.val.cols)))) :
                 frames \in {MasterFrames(paths, first.val.rows, first.val.cols,
                                          master_bias, master_dark, co_broadcast, <<>>)}}) :
        first \in {load_fits_image(paths[1])}})

create_master_bias(bias_paths) ==
    MedianMaster(bias_paths, None, None, FALSE, "No bias frames provided")

create_master_dark(dark_paths, master_bias, co_broadcast) ==
    MedianMaster(dark_paths, master_bias, None, co_broadcast, "No dark frames provided")

\* The positive finite entries of the median flat.
RECURSIVE PositiveFinite(_)
PositiveFinite(px) ==
    IF px = <<>> THEN <<>>
    ELSE (IF is_finite(Head(px)) /\ Head(px)[1].num > 0 THEN <<Head(px)>> ELSE <<>>)
         \o PositiveFinite(Tail(px))

\* The median flat scaled to mean 1 over its positive finite entries, the
\* other entries set to 1.0; unchanged if it has no positive finite entry.
\* (The mean of positive entries is above the 1e-10 below which inv_mean is
\* 1.0: the inputs here hold no value that small.)
Normalized(result) ==
    TheOne({IF finite_vals = <<>> THEN result
            ELSE TheOne({Frame(result.rows, result.cols,
                             [i \in 1..Len(result.px) |->
                                 IF is_finite(result.px[i]) /\ result.px[i][1].num > 0
                                 THEN fdiv(result.px[i], mean)
                                 ELSE Whole(1)]) :
                     mean \in {fdiv(FSum(finite_vals), Whole(Len(finite_vals)))}}) :
        finite_vals \in {PositiveFinite(result.px)}})

create_master_flat(flat_paths, master_bias, master_dark, co_broadcast) ==
    TheOne({IF median.panicked \/ ~median.val.ok THEN median
            ELSE Completed(Ok(Normalized(median.val.val))) :
        median \in {MedianMaster(flat_paths, master_bias, master_dark, co_broadcast,
                                 "No flat frames provided")}})

\* `Some(paths) if !paths.is_empty()`.
PathsGiven(paths) == paths # None /\ paths[1] # <<>>

\* `match paths { Some(paths) if !paths.is_empty() => Some(create(paths)?), _ => None }`.
OptionalMaster(paths, created) ==
    IF ~PathsGiven(paths) THEN Completed(Ok(None))
    ELSE TheOne({IF c.panicked \/ ~c.val.ok THEN c ELSE Completed(Ok(Some(c.val.val))) :
             c \in {created}})

\* An outcome that ends calibrate_from_paths: a panic, or an error taken by `?`.
Ends(outcome) == outcome.panicked \/ ~outcome.val.ok

calibrate_from_paths(science_path, bias_paths, dark_paths, flat_paths, dark_exposure_ratio, co_broadcast) ==
    TheOne({
      IF ~science.ok THEN Completed(science)
      ELSE TheOne({
        IF Ends(bias) THEN bias
        ELSE TheOne({
          IF Ends(dark) THEN dark
          ELSE TheOne({
            IF Ends(flat) THEN flat
            ELSE TheOne({
              IF calibrated.panicked THEN calibrated ELSE Completed(Ok(calibrated.val)) :
              calibrated \in {calibrate_image(science.val,
                                  CalibrationConfig(bias.val.val, dark.val.val,
                                                    flat.val.val, dark_exposure_ratio),
                                  co_broadcast)}}) :
            flat \in {OptionalMaster(flat_paths,
                          create_master_flat(unwrap_or(flat_paths, <<>>), bias.val.val,
                                             dark.val.val, co_broadcast))}}) :
          dark \in {OptionalMaster(dark_paths,
                        create_master_dark(unwrap_or(dark_paths, <<>>), bias.val.val,
                                           co_broadcast))}}) :
        bias \in {OptionalMaster(bias_paths,
                      create_master_bias(unwrap_or(bias_paths, <<>>)))}}) :
      science \in {load_fits_image(science_path)}})

\* ------------------------------------------------- specification: SpecCalib
\* calibrate_image applied once to a raw frame of two pixels and masters of
\* its or of other dimensions, or calibrate_from_paths applied once to a
\* science path and up to MaxPaths master paths.
MaxPaths == 3

PixelFrames(rows, cols, S) == {Frame(rows, cols, px) : px \in [1..(rows * cols) -> S]}
OtherShapes(v) == {Frame(1, 1, <<v>>), Frame(2, 2, <<v, v, v, v>>), Frame(1, 3, <<v, v, v>>)}

RawFrames == PixelFrames(1, 2, {NaN, Whole(100)})
BiasFrames == {Frame(1, 2, <<Whole(10), Whole(30)>>)} \cup OtherShapes(Whole(10))
DarkFrames == {Frame(1, 2, <<Whole(20), Whole(5)>>)} \cup OtherShapes(Whole(5))
FlatFrames == PixelFrames(1, 2, {NaN, Whole(0), Q(1, 100), Q(1, 2), Whole(-2)})
                  \cup OtherShapes(Whole(2))
OptionOf(S) == {None} \cup {Some(x) : x \in S}

\* What the paths load as: frames of three shapes, or nothing.
Ramp(rows, cols, v) == Frame(rows, cols, [i \in 1..(rows * cols) |-> Whole(v * i)])
Paths == {Ok(Ramp(1, 2, 1)), Ok(Ramp(1, 2, 3)), Ok(Ramp(2, 2, 1)), Ok(Ramp(1, 3, 1)),
          Unreadable}
\* Option<&[String]> of n paths.
PathLists(n) == (IF n = 0 THEN {None} ELSE {}) \cup {Some(s) : s \in [1..n -> Paths]}

InitImage ==
    \E raw \in RawFrames, b \in OptionOf(BiasFrames), d \in OptionOf(DarkFrames),
       f \in OptionOf(FlatFrames), ratio \in {Whole(1), Whole(2)}, co \in BOOLEAN :
        calib = [op |-> "calibrate_image", raw |-> raw,
                 config |-> CalibrationConfig(b, d, f, ratio),
                 co_broadcast |-> co, result |-> None]

InitPaths ==
    \E nb \in 0..MaxPaths : \E nd \in 0..(MaxPaths - nb) : \E nf \in 0..(MaxPaths - nb - nd) :
    \E science \in Paths, b \in PathLists(nb), d \in PathLists(nd), f \in PathLists(nf),
       co \in BOOLEAN :
        calib = [op |-> "calibrate_from_paths", science_path |-> science,
                 bias_paths |-> b, dark_paths |-> d, flat_paths |-> f,
                 dark_exposure_ratio |-> Whole(1), co_broadcast |-> co, result |-> None]

InitCalib ==
    /\ InitImage \/ InitPaths
    /\ mmap = Unused /\ cube = Unused /\ cache = Unused
    /\ InitThreads
    /\ walk = Unused /\ stack = Unused /\ align = Unused
    /\ rgb = Unused /\ display = Unused /\ batch = Unused

CalibrateImage ==
    /\ calib.op = "calibrate_image" /\ calib.result = None
    /\ calib' = [calib EXCEPT !.result =
                    Some(calibrate_image(calib.raw, calib.config, calib.co_broadcast))]
    /\ UNCHANGED <<mmap, cubeVars, walk, stack, align, rgb, display, batch>>

CalibrateFromPaths ==
    /\ calib.op = "calibrate_from_paths" /\ calib.result = None
    /\ calib' = [calib EXCEPT !.result =
                    Some(calibrate_from_paths(calib.science_path, calib.bias_paths,
                                              calib.dark_paths, calib.flat_paths,
                                              calib.dark_exposure_ratio,
                                              calib.co_broadcast))]
    /\ UNCHANGED <<mmap, cubeVars, walk, stack, align, rgb, display, batch>>

NextCalib == CalibrateImage \/ CalibrateFromPaths

SpecCalib == InitCalib /\ [][NextCalib]_vars


\* ------------------------------------------------------ claims on SpecCalib
\* A master has a pixel at (y, x).
HasPixel(master, y, x) == master = None \/ (y < master[1].rows /\ x < master[1].cols)

\* ((raw - bias) - dark * ratio) / flat at pixel (y, x) of the raw frame, an
\* absent master leaving the pixel as it is, and the division applied only
\* where the flat pixel is finite and above 0.01 in magnitude.
CalibratedPixel(raw, config, y, x) ==
    LET debiased == IF config.master_bias = None THEN At(raw, y, x)
                    ELSE fsub(At(raw, y, x), At(config.master_bias[1], y, x))
        dedarked == IF config.master_dark = None THEN debiased
                    ELSE fsub(debiased, fmul(At(config.master_dark[1], y, x),
                                             config.dark_exposure_ratio))
    IN  IF config.master_flat = None THEN dedarked
        ELSE LET flat_val == At(config.master_flat[1], y, x) IN
             IF flat_val # NaN /\ 100 * Abs(flat_val[1].num) > flat_val[1].den
             THEN fdiv(dedarked, flat_val) ELSE dedarked

IsCalibrated(out, raw, config) ==
    /\ ~out.panicked
    /\ dim(out.val) = dim(raw)
    /\ \A y \in 0..(raw.rows - 1), x \in 0..(raw.cols - 1) :
          /\ HasPixel(config.master_bias, y, x)
          /\ HasPixel(config.master_dark, y, x)
          /\ HasPixel(config.master_flat, y, x)
          /\ At(out.val, y, x) = CalibratedPixel(raw, config, y, x)

\* C12: calibrate_image computes, pixel by pixel and in this order,
\* raw - bias, then - dark * ratio, then the division by flat, applied only
\* if the flat pixel is finite and |flat| > 0.01 and otherwise passing the
\* pixel through; each absent master leaves the image unchanged at its step.
C12_CalibrationFormula ==
    (calib.op = "calibrate_image" /\ calib.result # None)
        => IsCalibrated(calib.result[1], calib.raw, calib.config)

\* Every master given has the raw frame's dimensions.
MastersMatch(raw, config) ==
    \A m \in {config.master_bias, config.master_dark, config.master_flat} :
        m = None \/ dim(m[1]) = dim(raw)

\* The formula of C12 on masters of the raw frame's dimensions.
CalibrationFormulaOnMatchingMasters ==
    (calib.op = "calibrate_image" /\ calib.result # None
     /\ MastersMatch(calib.raw, calib.config))
        => IsCalibrated(calib.result[1], calib.raw, calib.config)

\* The paths given for a master all load, as frames of one dimension.
Builds(paths) ==
    /\ PathsGiven(paths)
    /\ \A i \in 1..Len(paths[1]) : paths[1][i].ok /\ dim(paths[1][i].val) = dim(paths[1][1].val)

\* The science frame loads, every master given builds, and one of them has
\* other dimensions than the science frame.
ScienceDiffersFromMaster ==
    /\ calib.science_path.ok
    /\ \A paths \in {calib.bias_paths, calib.dark_paths, calib.flat_paths} :
          PathsGiven(paths) => Builds(paths)
    /\ \E paths \in {calib.bias_paths, calib.dark_paths, calib.flat_paths} :
          Builds(paths) /\ dim(paths[1][1].val) # dim(calib.science_path.val)

F64(n, d, ord) ==
    LET r == IF d < 0 THEN Ratio(-n, -d) ELSE Ratio(n, d)
    IN  [num |-> r.num, den |-> r.den, ord |-> IF r.num = 0 THEN 0 ELSE ord]
Num(n) == F64(n, 1, 0)
Frac(n, d) == F64(n, d, 0)
Tiny15 == F64(1, 1, 1)                  \* 1e-15
Tiny30 == F64(1, 1, 2)                  \* 1e-30
\* `v as f64` of a finite f32 (of ordinary size unless it carries an order).
as_f64(v) == F64(v[1].num, v[1].den, IF "ord" \in DOMAIN v[1] THEN v[1].ord ELSE 0)
neg(a) == [a EXCEPT !.num = -a.num]
add(a, b) ==
    IF a.num = 0 THEN b
    ELSE IF b.num = 0 THEN a
    ELSE IF a.ord < b.ord THEN a
    ELSE IF b.ord < a.ord THEN b
    ELSE LET g == Gcd(a.den, b.den)
         IN  F64(a.num * (b.den \div g) + b.num * (a.den \div g),
                 (a.den \div g) * b.den, a.ord)
sub(a, b) == add(a, neg(b))
mul(a, b) ==
    IF a.num = 0 \/ b.num = 0 THEN Num(0)
    ELSE LET g1 == Gcd(Abs(a.num), b.den)
             g2 == Gcd(Abs(b.num), a.den)
         IN  F64((a.num \div g1) * (b.num \div g2),
                 (a.den \div g2) * (b.den \div g1), a.ord + b.ord)
\* a / b for b other than 0.
div(a, b) ==
    mul(a, [num |-> IF b.num < 0 THEN -b.den ELSE b.den, den |-> Abs(b.num),
            ord |-> -b.ord])
abs(a) == [a EXCEPT !.num = Abs(a.num)]
IsNeg(a) == a.num < 0
IsPos(a) == a.num > 0
\* a.num / a.den < b.num / b.den for fractions above 0, by their continued
\* fractions.
RECURSIVE FracLess(_, _, _, _)
FracLess(an, ad, bn, bd) ==
    IF an \div ad # bn \div bd THEN an \div ad < bn \div bd
    ELSE IF an % ad = 0 THEN bn % bd # 0
    ELSE IF bn % bd = 0 THEN FALSE
    ELSE FracLess(bd, bn % bd, ad, an % ad)
lt(a, b) ==
    IF a.num <= 0 \/ b.num <= 0
    THEN (IF a.num < 0 /\ b.num < 0 THEN IsNeg(sub(a, b)) ELSE a.num < b.num /\ (a.num < 0 \/ b.num > 0))
    ELSE IF a.ord # b.ord THEN a.ord > b.ord
    ELSE FracLess(a.num, a.den, b.num, b.den)
le(a, b) == ~lt(b, a)
max(a, b) == IF lt(a, b) THEN b ELSE a
min(a, b) == IF lt(b, a) THEN b ELSE a
clamp(x, lo, hi) == IF lt(x, lo) THEN lo ELSE IF lt(hi, x) THEN hi ELSE x

HISTOGRAM_BINS == 65536
\* A slip in the constant: the factor from sigma to MAD.
MAD_TO_SIGMA_inverse == Frac(5000, 7413)

MAD_TO_SIGMA == Frac(7413, 5000)

\* is_valid_pixel: v.is_finite() && v > PADDING_THRESHOLD (1e-7).
PaddingDen == 10000000
is_valid_pixel(v) == is_finite(v) /\ v[1].num * PaddingDen > v[1].den

\* The valid pixels of a slice, as f64.
RECURSIVE Valid(_)
Valid(slice) ==
    IF slice = <<>> THEN <<>>
    ELSE (IF is_valid_pixel(Head(slice)) THEN <<as_f64(Head(slice))>> ELSE <<>>)
         \o Valid(Tail(slice))

\* data[k] after select_nth_unstable_by(k): the element of rank k (from 0).
Select(data, k) ==
    CHOOSE v \in {data[j] : j \in 1..Len(data)} :
        /\ Cardinality({j \in 1..Len(data) : lt(data[j], v)}) <= k
        /\ k < Cardinality({j \in 1..Len(data) : le(data[j], v)})

\* exact_median_mut / exact_median_f64.
exact_median(data) ==
    LET n == Len(data)
        mid == n \div 2
    IN  IF n = 0 THEN Num(0)
        ELSE IF n % 2 = 0
        THEN div(add(Select(data, mid - 1), Select(data, mid)), Num(2))
        ELSE Select(data, mid)

RECURSIVE Fold(_, _, _)
Fold(op(_, _), acc, vs) == IF vs = <<>> THEN acc ELSE Fold(op, op(acc, Head(vs)), Tail(vs))

ImageStats_default ==
    [min |-> Num(0), max |-> Num(0), median |-> Num(0), mad |-> Num(0),
     sigma |-> Num(0), mean |-> Num(0), valid_count |-> 0]

compute_image_stats(data) ==
    LET valid == Valid(data.px)
        n == Len(valid)
    IN  IF n = 0 THEN ImageStats_default
        ELSE LET median == exact_median(valid)
                 deviations == [i \in 1..n |-> abs(sub(valid[i], median))]
                 mad == exact_median(deviations)
             IN  [min |-> Fold(min, valid[1], valid),
                  max |-> Fold(max, valid[1], valid),
                  median |-> median,
                  mad |-> mad,
                  sigma |-> max(mul(mad, MAD_TO_SIGMA), Tiny30),
                  mean |-> div(Fold(add, Num(0), valid), Num(n)),
                  valid_count |-> n]


\* `x as usize` capped by `.min(cap)`: truncation, saturating at both ends.
as_usize_min(x, cap) ==
    IF ~IsPos(x) \/ x.ord > 0 THEN 0
    ELSE IF x.ord < 0 THEN cap
    ELSE Min(x.num \div x.den, cap)

\* Vec<u32> bins, kept as the function from the indices of the non-zero bins
\* to their counts; every other bin holds 0.
ZeroBins == [i \in {} |-> 0]
BinAt(bins, i) == IF i \in DOMAIN bins THEN bins[i] ELSE 0
\* A slip in the accumulation: the bin is assigned, not added to.
Incr_assigned(bins, idx, b) == [i \in DOMAIN bins \cup {idx} |-> IF i = idx THEN b ELSE bins[i]]

\* bins[idx] += b.
Incr(bins, idx, b) == [i \in DOMAIN bins \cup {idx} |-> BinAt(bins, i) + (IF i = idx THEN b ELSE 0)]

RECURSIVE FillBins(_, _, _, _)
FillBins(slice, dmin, inv_range, local_bins) ==
    IF slice = <<>> THEN local_bins
    ELSE FillBins(Tail(slice), dmin, inv_range,
             IF is_valid_pixel(Head(slice))
             THEN Incr(local_bins,
                       as_usize_min(mul(sub(as_f64(Head(slice)), dmin), inv_range),
                                    HISTOGRAM_BINS - 1), 1)
             ELSE local_bins)

\* The chunks of the slice are binned apart and the local bins added up,
\* which comes to binning the slice.
compute_histogram(data, stats) ==
    IF stats.valid_count = 0
    THEN [bins |-> ZeroBins, bin_count |-> HISTOGRAM_BINS,
          data_min |-> Num(0), data_max |-> Num(1),
          bin_width |-> Frac(1, HISTOGRAM_BINS), total_pixels |-> 0]
    ELSE LET range == max(sub(stats.max, stats.min), Tiny30)
         IN  [bins |-> FillBins(data.px, stats.min,
                                div(Num(HISTOGRAM_BINS - 1), range), ZeroBins),
              bin_count |-> HISTOGRAM_BINS,
              data_min |-> stats.min, data_max |-> stats.max,
              bin_width |-> div(range, Num(HISTOGRAM_BINS)),
              total_pixels |-> stats.valid_count]

\* The fold of downsample_histogram over the non-zero bins (a zero bin adds
\* nothing); the counts here are far below the u32::MAX at which
\* saturating_add stops.
RECURSIVE DownsampleFold(_, _, _, _, _)
DownsampleFold(bins, todo, ratio, target_bins, out) ==
    IF todo = {} THEN out
    ELSE LET i == CHOOSE j \in todo : \A k \in todo : j <= k
         IN  DownsampleFold(bins, todo \ {i}, ratio, target_bins,
                 Incr(out, as_usize_min(div(Num(i), ratio), target_bins - 1), bins[i]))

downsample_histogram(hist, target_bins) ==
    DownsampleFold(hist.bins, DOMAIN hist.bins, Frac(hist.bin_count, target_bins),
                   target_bins, ZeroBins)

\* --------------------------------------------------------------------- stf.rs
analyze(data) ==
    TheOne({[stats |-> st, hist |-> compute_histogram(data, st)] :
                st \in {compute_image_stats(data)}})

\* ------------------------------------------------- specification: SpecStats
\* analyze applied once to a frame of up to MaxPixels pixels, then
\* downsample_histogram applied once to its histogram.
MaxPixels == 4

\* f32 pixels: not finite, padding (0, negative, at and below 1e-7), valid.
StatPixels == {NaN, Whole(0), Whole(-1), Q(1, 100000000), Q(1, PaddingDen),
               Whole(1), Whole(2), Whole(5)}
TargetBins == {1, 2, 3, 7, 256, 1000, 32768, HISTOGRAM_BINS}

InitStats ==
    /\ \E n \in 1..MaxPixels : \E px \in [1..n -> StatPixels] :
          display = [data |-> Frame(1, n, px), analysis |-> None, target_bins |-> None,
                     downsampled |-> None]
    /\ mmap = Unused /\ cube = Unused /\ cache = Unused
    /\ InitThreads
    /\ walk = Unused /\ stack = Unused /\ align = Unused
    /\ rgb = Unused /\ calib = Unused /\ batch = Unused

Analyze ==
    /\ display.analysis = None
    /\ display' = [display EXCEPT !.analysis = Some(analyze(display.data))]
    /\ UNCHANGED <<mmap, cubeVars, walk, stack, align, rgb, calib, batch>>

DownsampleHistogram ==
    /\ display.analysis # None /\ display.downsampled = None
    /\ \E target_bins \in TargetBins :
          display' = [display EXCEPT
                         !.target_bins = Some(target_bins),
                         !.downsampled = Some(downsample_histogram(display.analysis[1].hist,
                                                                   target_bins))]
    /\ UNCHANGED <<mmap, cubeVars, walk, stack, align, rgb, calib, batch>>

NextStats == Analyze \/ DownsampleHistogram

SpecStats == InitStats /\ [][NextStats]_vars

\* ------------------------------------------------------ claims on SpecStats
RECURSIVE BinSum(_)
BinSum(bins) ==
    IF DOMAIN bins = {} THEN 0
    ELSE LET i == CHOOSE j \in DOMAIN bins : TRUE
         IN  bins[i] + BinSum([k \in DOMAIN bins \ {i} |-> bins[k]])

\* The number of finite pixels greater than 1e-7.
ValidPixels(data) ==
    Cardinality({i \in 1..Len(data.px) :
                    data.px[i] # NaN /\ data.px[i][1].num * 10000000 > data.px[i][1].den})

\* C14: for every frame, the 65536 bins of compute_histogram(frame,
\* compute_image_stats(frame)) sum to valid_count, the number of finite
\* pixels greater than 1e-7, and downsample_histogram to any target bin
\* count from 1 to 65536 preserves that sum.
C14_HistogramSumsToValidCount ==
    /\ display.analysis # None =>
          /\ display.analysis[1].stats.valid_count = ValidPixels(display.data)
          /\ DOMAIN display.analysis[1].hist.bins \subseteq 0..(HISTOGRAM_BINS - 1)
          /\ BinSum(display.analysis[1].hist.bins) = display.analysis[1].stats.valid_count
    /\ display.downsampled # None =>
          /\ DOMAIN display.downsampled[1] \subseteq 0..(display.target_bins[1] - 1)
          /\ BinSum(display.downsampled[1]) = display.analysis[1].stats.valid_count

\* A frame of valid and invalid pixels filling several bins, its histogram
\* downsampled to a bin count that does not divide 65536.
C14_Witness ==
    /\ display.downsampled # None /\ display.target_bins[1] = 1000
    /\ Cardinality(DOMAIN display.analysis[1].hist.bins) = 3
    /\ 0 < display.analysis[1].stats.valid_count
    /\ display.analysis[1].stats.valid_count < Len(display.data.px)


\* The distinct valid pixels of the frame.
ValidValues(data) ==
    {data.px[i] : i \in {j \in 1..Len(data.px) :
                            data.px[j] # NaN /\ data.px[j][1].num * 10000000 > data.px[j][1].den}}

\* C15 as stated: for every frame, the ImageStats returned by
\* compute_image_stats satisfy sigma = 1.4826 * mad, including frames whose
\* valid pixels are all equal and frames with no valid pixel.
C15_SigmaIsScaledMad ==
    display.analysis # None =>
        display.analysis[1].stats.sigma = mul(display.analysis[1].stats.mad, Frac(7413, 5000))

\* C15, amended: sigma = max(1.4826 * mad, 1e-30) for a frame with a valid
\* pixel -- 1e-30 with mad = 0 when its valid pixels are all equal -- and
\* sigma = mad = 0 for a frame with no valid pixel.
C15_SigmaIsFlooredScaledMad ==
    display.analysis # None =>
        LET st == display.analysis[1].stats IN
        /\ ValidValues(display.data) = {} => st.sigma = Num(0) /\ st.mad = Num(0)
        /\ Cardinality(ValidValues(display.data)) = 1 =>
              st.mad = Num(0) /\ st.sigma = F64(1, 1, 2)
        /\ ValidValues(display.data) # {} =>
              /\ ~IsNeg(st.mad)
              /\ IsPos(st.mad) => st.sigma = mul(st.mad, Frac(7413, 5000))
              /\ ~IsPos(st.mad) => st.sigma = F64(1, 1, 2)

\* The statistics of a frame whose three valid pixels are all equal.
C15_Witness ==
    /\ display.analysis # None
    /\ display.analysis[1].stats.valid_count = 3
    /\ Cardinality(ValidValues(display.data)) = 1


\* --------------------------------------------------------------------- stf.rs
StfParams(shadow, midtone, highlight) ==
    [shadow |-> shadow, midtone |-> midtone, highlight |-> highlight]
StfParams_default == StfParams(Num(0), Frac(1, 4), Num(1))

AutoStfConfig(target_bg, shadow_k) == [target_bg |-> target_bg, shadow_k |-> shadow_k]
AutoStfConfig_default == AutoStfConfig(Frac(1, 4), Frac(-14, 5))

mtf_balance(m, t) ==
    TheOne({IF lt(abs(denom), Tiny15) THEN Frac(1, 2)
            ELSE clamp(div(mul(m, sub(t, Num(1))), denom), Frac(1, 10000), Frac(9999, 10000)) :
        denom \in {sub(sub(mul(mul(Num(2), t), m), t), m)}})

\* auto_stf's shadow: (median_norm + shadow_k * sigma_norm).max(0.0).
ShadowFloor(x) == max(x, Num(0))

auto_stf(stats, config) ==
    IF stats.valid_count = 0 THEN StfParams_default
    ELSE TheOne({
        TheOne({
            TheOne({
                StfParams(shadow_norm,
                          IF ~IsPos(m_clipped) \/ ~lt(m_clipped, Num(1)) THEN Frac(1, 2)
                          ELSE mtf_balance(m_clipped, config.target_bg),
                          Num(1)) :
                m_clipped \in {clamp(div(sub(div(sub(stats.median, stats.min), range),
                                             shadow_norm),
                                         max(sub(Num(1), shadow_norm), Tiny15)),
                                     Num(0), Num(1))}}) :
            shadow_norm \in {ShadowFloor(add(div(sub(stats.median, stats.min), range),
                                             mul(config.shadow_k, div(stats.sigma, range))))}}) :
        range \in {max(sub(stats.max, stats.min), Tiny30)}})

mtf(x, m) ==
    IF ~IsPos(x) THEN Num(0)
    ELSE IF ~lt(x, Num(1)) THEN Num(1)
    ELSE div(mul(sub(m, Num(1)), x), sub(mul(sub(mul(Num(2), m), Num(1)), x), m))

\* The stretch of one valid pixel, shared by apply_stf and apply_stf_f32.
Stretched(v, params, stats) ==
    TheOne({mtf(clamp(div(sub(norm, params.shadow),
                          max(sub(params.highlight, params.shadow), Tiny15)),
                      Num(0), Num(1)),
                params.midtone) :
        norm \in {mul(sub(as_f64(v), stats.min),
                      div(Num(1), max(sub(stats.max, stats.min), Tiny30)))}})

\* (stretched * 255.0).round().clamp(0.0, 255.0) as u8, for 0 <= stretched <= 1.
round_u8(stretched) ==
    TheOne({IF x.ord > 0 THEN 0 ELSE (2 * x.num + x.den) \div (2 * x.den) :
        x \in {mul(stretched, Num(255))}})

apply_stf(data, params, stats) ==
    [i \in 1..Len(data.px) |->
        IF ~is_valid_pixel(data.px[i]) THEN 0
        ELSE round_u8(Stretched(data.px[i], params, stats))]

apply_stf_f32(data, params, stats) ==
    Frame(data.rows, data.cols,
          [i \in 1..Len(data.px) |->
              IF ~is_valid_pixel(data.px[i]) THEN Num(0)
              ELSE Stretched(data.px[i], params, stats)])

\* ---------------------------------------------------- specification: SpecStf
\* analyze applied once to a frame of up to MaxStfPixels pixels, then auto_stf
\* applied once to its statistics under a configuration.
MaxStfPixels == 3

\* f32 pixels: not finite, padding, valid, and 1e30.
Huge30 == <<[num |-> 1, den |-> 1, ord |-> -2]>>
StfPixels == {NaN, Whole(0), Whole(1), Whole(2), Whole(5), Huge30}
\* Parameters handed to apply_stf by a caller; None: those of auto_stf.
GivenParams == {StfParams(Num(0), Frac(1, 2), Num(1)),
                StfParams(Frac(1, 4), Frac(1, 4), Frac(3, 4)),
                StfParams(Num(0), Frac(3, 4), Frac(1, 2)),
                StfParams(Num(0), Frac(1, 2), Tiny30),
                StfParams(Frac(1, 2), Frac(1, 2), Frac(1, 2))}
StfConfigs == {AutoStfConfig_default, AutoStfConfig(Frac(1, 4), Frac(-3, 2)),
               AutoStfConfig(Frac(1, 2), Frac(-4, 1)), AutoStfConfig(Frac(1, 4), Num(2))}

InitStf ==
    /\ \E n \in 1..MaxStfPixels : \E px \in [1..n -> StfPixels] : \E config \in StfConfigs :
       \E params \in OptionOf(GivenParams) :
          display = [data |-> Frame(1, n, px), analysis |-> None, config |-> config,
                     auto |-> None, params |-> params, bytes |-> None, stretched |-> None]
    /\ mmap = Unused /\ cube = Unused /\ cache = Unused
    /\ InitThreads
    /\ walk = Unused /\ stack = Unused /\ align = Unused
    /\ rgb = Unused /\ calib = Unused /\ batch = Unused

AutoStf ==
    /\ display.analysis # None /\ display.auto = None
    /\ display' = [display EXCEPT
                      !.auto = Some(auto_stf(display.analysis[1].stats, display.config))]
    /\ UNCHANGED <<mmap, cubeVars, walk, stack, align, rgb, calib, batch>>

\* The parameters apply_stf is called with: the caller's, or auto_stf's.
ParamsInUse == IF display.params # None THEN display.params[1] ELSE display.auto[1]

ApplyStf ==
    /\ display.analysis # None /\ display.bytes = None
    /\ display.params = None => display.auto # None
    /\ display' = [display EXCEPT
                      !.bytes = Some(apply_stf(display.data, ParamsInUse,
                                               display.analysis[1].stats))]
    /\ UNCHANGED <<mmap, cubeVars, walk, stack, align, rgb, calib, batch>>

ApplyStfF32 ==
    /\ display.analysis # None /\ display.stretched = None
    /\ display.params = None => display.auto # None
    /\ display' = [display EXCEPT
                      !.stretched = Some(apply_stf_f32(display.data, ParamsInUse,
                                                       display.analysis[1].stats))]
    /\ UNCHANGED <<mmap, cubeVars, walk, stack, align, rgb, calib, batch>>

NextStf == Analyze \/ AutoStf \/ ApplyStf \/ ApplyStfF32

SpecStf == InitStf /\ [][NextStf]_vars

\* -------------------------------------------------------- claims on SpecStf
\* The StfParams invariant: 0 <= shadow < highlight <= 1 and 0 < midtone < 1.
StfInvariant(params) ==
    /\ ~IsNeg(params.shadow)
    /\ lt(params.shadow, params.highlight)
    /\ le(params.highlight, Num(1))
    /\ IsPos(params.midtone) /\ lt(params.midtone, Num(1))

\* C16: every StfParams value returned by auto_stf satisfies
\* 0 <= shadow < highlight <= 1 and 0 < midtone < 1, for any ImageStats
\* produced by compute_image_stats and any AutoStfConfig.
C16_AutoStfParamsInvariant ==
    display.auto # None => StfInvariant(display.auto[1])

\* The invariant of C16 under the default configuration alone.
AutoStfParamsInvariantByDefault ==
    (display.auto # None /\ display.config = AutoStfConfig_default)
        => StfInvariant(display.auto[1])

\* C17: when stats.valid_count = 0, auto_stf returns the identity
\* parameters, shadow 0, midtone 0.5, highlight 1.
C17_NoValidPixelGivesIdentity ==
    (display.auto # None /\ display.analysis[1].stats.valid_count = 0)
        => display.auto[1] = [shadow |-> Num(0), midtone |-> Frac(1, 2), highlight |-> Num(1)]

\* v <= f * range + min and v >= f * range + min, as v - min against
\* f * range.
AtOrBelow(v, f, stats) ==
    le(sub(as_f64(v), stats.min), mul(f, max(sub(stats.max, stats.min), F64(1, 1, 2))))
AtOrAbove(v, f, stats) ==
    le(mul(f, max(sub(stats.max, stats.min), F64(1, 1, 2))), sub(as_f64(v), stats.min))

\* The output is 0 at invalid pixels, lo at valid pixels at or below
\* shadow * range + min, hi at valid pixels at or above
\* highlight * range + min, between lo and hi everywhere, and non-decreasing
\* in the value of the valid pixels.
IsStretchOf(out, data, params, stats, lo, hi, before(_, _)) ==
    LET valid == {i \in 1..Len(data.px) : is_valid_pixel(data.px[i])} IN
    /\ \A i \in (1..Len(data.px)) \ valid : out[i] = lo
    /\ \A i \in valid :
          /\ ~before(out[i], lo) /\ ~before(hi, out[i])
          /\ AtOrBelow(data.px[i], params.shadow, stats) => out[i] = lo
          /\ AtOrAbove(data.px[i], params.highlight, stats) => out[i] = hi
    /\ \A i \in valid, j \in valid :
          le(as_f64(data.px[i]), as_f64(data.px[j])) => ~before(out[j], out[i])

StretchIsCorrect ==
    /\ display.bytes # None =>
          IsStretchOf(display.bytes[1], display.data, ParamsInUse,
                      display.analysis[1].stats, 0, 255, <)
    /\ display.stretched # None =>
          IsStretchOf(display.stretched[1].px, display.data, ParamsInUse,
                      display.analysis[1].stats, Num(0), Num(1), lt)

Applied == display.bytes # None \/ display.stretched # None

StretchCorrectOnWideClip ==
    (Applied /\ StfInvariant(ParamsInUse)
     /\ le(Tiny15, sub(ParamsInUse.highlight, ParamsInUse.shadow)))
        => StretchIsCorrect

\* ================================================================
\* utils/simd.rs, domain/normalize.rs: the asinh normalisation
\* ================================================================
\* f32 infinities: a pixel with denominator 0.
PosInf == <<[num |-> 1, den |-> 0]>>
NegInf == <<[num |-> -1, den |-> 0]>>
\* f32::is_finite.
f32_is_finite(v) == v # NaN /\ v[1].den # 0

\* The lanes of one AVX2 register of f32.
Lanes == 8
\* sigma = (mad * 1.4826).max(1e-10): the floor, 1e5 * 1e-15.
SigmaFloor == F64(100000, 1, 1)
Alpha == Num(10)

\* The value an asinh approximation returns for x, kept as the
\* approximation and its argument.
AsinhOf(x, approximation) ==
    <<[num |-> x.num, den |-> x.den, ord |-> x.ord, asinh |-> approximation]>>

\* fast_asinh_scalar: x * (1 - ...) below 0.5, which is 0 at 0 alone; a
\* positive logarithm times the sign of x from there on.
fast_asinh_scalar(x) == IF x.num = 0 THEN Whole(0) ELSE AsinhOf(x, "scalar")

\* fast_asinh_avx2: fast_log_avx2(|x| + sqrt(x^2 + 1)) with the sign bit of
\* x.  The cubic of fast_log_avx2 is increasing and 0.0566 at mantissa 1, so
\* the result is never 0, at x = 0 included.
fast_asinh_avx2(x) == AsinhOf(x, "avx2")

\* One pixel of the scalar loop.
ScalarPixel(v, median, inv_sigma_alpha, low, high) ==
    IF ~f32_is_finite(v) THEN Whole(0)
    ELSE fast_asinh_scalar(mul(inv_sigma_alpha, sub(clamp(as_f64(v), low, high), median)))

\* _mm256_min_ps(_mm256_max_ps(data, v_low), v_high) on one lane: an
\* infinite lane is clamped like any other; a NaN lane yields the second
\* operand.
ClampLane(v, low, high) ==
    IF v = NaN \/ v = NegInf THEN low
    ELSE IF v = PosInf THEN high
    ELSE min(max(as_f64(v), low), high)

\* One lane of the AVX2 loop: the mask is _mm256_cmp_ps(data, data, EQ_OQ),
\* false on NaN alone.
Avx2Lane(v, median, inv_sigma_alpha, low, high) ==
    IF v = NaN THEN Whole(0)
    ELSE fast_asinh_avx2(mul(inv_sigma_alpha, sub(ClampLane(v, low, high), median)))

normalize_chunk_avx2(input, median, inv_sigma_alpha, low, high) ==
    [i \in 1..Len(input) |->
        IF i <= (Len(input) \div Lanes) * Lanes
        THEN Avx2Lane(input[i], median, inv_sigma_alpha, low, high)
        ELSE ScalarPixel(input[i], median, inv_sigma_alpha, low, high)]

\* The finite pixels of a slice.
RECURSIVE FiniteOf(_)
FiniteOf(slice) ==
    IF slice = <<>> THEN <<>>
    ELSE (IF f32_is_finite(Head(slice)) THEN <<as_f64(Head(slice))>> ELSE <<>>)
         \o FiniteOf(Tail(slice))

\* asinh_normalize_simd; avx2 is is_x86_feature_detected!("avx2") on an
\* x86_64 build and FALSE on any other.
asinh_normalize_simd(data, avx2) ==
    TheOne({
        IF finite = <<>> THEN data
        ELSE TheOne({
            TheOne({
                TheOne({
                    Frame(data.rows, data.cols,
                          IF avx2
                          THEN normalize_chunk_avx2(data.px, median, inv_sigma_alpha,
                                                    Select(finite, Len(finite) \div 100),
                                                    Select(finite, Min((Len(finite) * 999) \div 1000,
                                                                       Len(finite) - 1)))
                          ELSE [i \in 1..Len(data.px) |->
                                   ScalarPixel(data.px[i], median, inv_sigma_alpha,
                                               Select(finite, Len(finite) \div 100),
                                               Select(finite, Min((Len(finite) * 999) \div 1000,
                                                                  Len(finite) - 1)))]) :
                    inv_sigma_alpha \in {div(Alpha, sigma)}}) :
                sigma \in {max(mul(Select([i \in 1..Len(finite) |-> abs(sub(finite[i], median))],
                                          Len(finite) \div 2),
                                   MAD_TO_SIGMA), SigmaFloor)}}) :
            median \in {Select(finite, Len(finite) \div 2)}}) :
        finite \in {FiniteOf(data.px)}})

\* domain/normalize.rs
asinh_normalize(data, avx2) == asinh_normalize_simd(data, avx2)

\* ------------------------------------------------------------ SpecNormalize
MaxNormPixels == 3
NormPixels == {NaN, PosInf, NegInf, Whole(0), Whole(-1), Whole(1), Whole(2)}

\* Frames of up to MaxNormPixels pixels, and frames of one full register:
\* two pixels, the same pixel for the rest of the register, and up to one
\* pixel after it.
NormFrames ==
    UNION {[1..n -> NormPixels] : n \in 1..MaxNormPixels}
    \cup {[i \in 1..(Lanes + Len(rest)) |->
              IF i <= 2 THEN first[i] ELSE IF i <= Lanes THEN fill ELSE rest[i - Lanes]] :
          first \in [1..2 -> NormPixels], fill \in NormPixels,
          rest \in SeqsUpTo(NormPixels, 1)}

InitNormalize ==
    /\ \E px \in NormFrames, avx2 \in BOOLEAN :
          display = [data |-> Frame(1, Len(px), px), avx2 |-> avx2, normalized |-> None]
    /\ mmap = Unused /\ cube = Unused /\ cache = Unused
    /\ InitThreads
    /\ walk = Unused /\ stack = Unused /\ align = Unused
    /\ rgb = Unused /\ calib = Unused /\ batch = Unused

AsinhNormalize ==
    /\ display.normalized = None
    /\ display' = [display EXCEPT
                      !.normalized = Some(asinh_normalize(display.data, display.avx2))]
    /\ UNCHANGED <<mmap, cubeVars, walk, stack, align, rgb, calib, batch>>

NextNormalize == AsinhNormalize

SpecNormalize == InitNormalize /\ [][NextNormalize]_vars

\* ---------------------------------------------------- claims on SpecNormalize
\* An input pixel that is non-finite or padding (<= 1e-7).
InvalidInput(v) == ~f32_is_finite(v) \/ ~is_valid_pixel(v)
ExactlyZero(o) == f32_is_finite(o) /\ o[1].num = 0
NormalizedPixels == display.normalized[1].px

\* C19: asinh_normalize maps every invalid input pixel (non-finite, or
\* padding <= 1e-7) to exactly 0 and returns only finite values, for every
\* input frame, a frame with no finite pixel included.
C19_InvalidPixelsBecomeZero ==
    display.normalized # None =>
        \A i \in 1..Len(display.data.px) :
            /\ f32_is_finite(NormalizedPixels[i])
            /\ InvalidInput(display.data.px[i]) => ExactlyZero(NormalizedPixels[i])

\* What does hold on the scalar path: a frame with a finite pixel comes
\* back finite, with 0 at every non-finite pixel.
ScalarPathMasksNonFinite ==
    (display.normalized # None /\ ~display.avx2
     /\ \E i \in 1..Len(display.data.px) : f32_is_finite(display.data.px[i])) =>
        \A i \in 1..Len(display.data.px) :
            /\ f32_is_finite(NormalizedPixels[i])
            /\ ~f32_is_finite(display.data.px[i]) => ExactlyZero(NormalizedPixels[i])

\* Three frames of the claim's case: no finite pixel; a padding pixel
\* beside valid ones; an infinite lane of a full register.
NoFinitePixelReturned ==
    (display.normalized # None /\ FiniteOf(display.data.px) = <<>>) =>
        \A i \in 1..Len(display.data.px) : ExactlyZero(NormalizedPixels[i])
PaddingBecomesZero ==
    (display.normalized # None /\ ~display.avx2
     /\ \A i \in 1..Len(display.data.px) : f32_is_finite(display.data.px[i])) =>
        \A i \in 1..Len(display.data.px) :
            ~is_valid_pixel(display.data.px[i]) => ExactlyZero(NormalizedPixels[i])
InfiniteLaneBecomesZero ==
    (display.normalized # None /\ display.avx2 /\ FiniteOf(display.data.px) # <<>>) =>
        \A i \in 1..Len(display.data.px) :
            ~f32_is_finite(display.data.px[i]) => ExactlyZero(NormalizedPixels[i])

\* ================================================================
\* domain/pipeline.rs, commands/image.rs: batches
\* ================================================================
\* usize values.  A header value is an i64 and `as usize` keeps its bits: a
\* negative n stands for 2^64 + n, and wrapping arithmetic on such values is
\* the integer arithmetic on n while the magnitudes stay small.
ULess(a, b) == IF (a < 0) = (b < 0) THEN a < b ELSE b < 0
\* a * b and a + b leave the 64 bits.
MulOverflows(a, b) == (a < 0 /\ b < 0) \/ (a < 0 /\ b >= 2) \/ (b < 0 /\ a >= 2)
AddOverflows(a, b) == (a < 0 /\ b < 0) \/ (a < 0 /\ b > 0 /\ a + b >= 0)
                      \/ (b < 0 /\ a > 0 /\ a + b >= 0)

\* A file of a batch: whether it opens, and its one HDU, a header of one
\* block with NAXIS = 3, NAXIS2 = 2, BITPIX = 16 and the NAXIS1 and NAXIS3 it
\* gives, followed by data_len bytes.
BatchFile(opens, naxis1, naxis3, data_len) ==
    [opens |-> opens, naxis1 |-> naxis1, naxis2 |-> 2, naxis3 |-> naxis3, bitpix |-> 16,
     len |-> BLOCK_SIZE + data_len]

\* HduHeader::data_byte_count inside parse_header_at: a build with overflow
\* checks panics where the product leaves the 64 bits.
HeaderParsePanics(file, overflow_checks) ==
    overflow_checks
    /\ \/ MulOverflows(file.naxis1, file.naxis2)
       \/ MulOverflows(file.naxis1 * file.naxis2, file.naxis3)
       \/ MulOverflows(file.naxis1 * file.naxis2 * file.naxis3, Abs(file.bitpix) \div 8)

\* extract_cube_mmap on the file: the first HDU with NAXIS = 3 and
\* NAXIS3 > 1, its size against the file's, and the slice of its bytes.
CubeOfFile(file, overflow_checks) ==
    IF HeaderParsePanics(file, overflow_checks)
    THEN Panicked("attempt to multiply with overflow")
    ELSE IF ~(file.naxis3 > 1) THEN Completed(Err("No 3D data block found"))
    ELSE TheOne({
        IF ULess(file.len, BLOCK_SIZE + total_bytes)
        THEN Completed(Err("Cube data exceeds file size"))
        ELSE IF ULess(BLOCK_SIZE + total_bytes, BLOCK_SIZE)
        THEN Panicked("slice index starts after its end")
        ELSE Completed(Ok(<<file.naxis3, file.naxis2, file.naxis1>>)) :
        total_bytes \in {file.naxis1 * file.naxis2 * file.naxis3 * (Abs(file.bitpix) \div 8)}})

\* extract_image_mmap on the file: the first HDU with NAXIS >= 2,
\* NAXIS1 > 1 and NAXIS2 > 1.
ImageOfFile(file, overflow_checks) ==
    IF HeaderParsePanics(file, overflow_checks)
    THEN Panicked("attempt to multiply with overflow")
    ELSE IF ~(file.naxis1 > 1 /\ file.naxis2 > 1)
    THEN Completed(Err("No 2D image block found"))
    ELSE IF file.len < BLOCK_SIZE + file.naxis1 * file.naxis2 * (Abs(file.bitpix) \div 8)
    THEN Completed(Err("Image data exceeds file size"))
    ELSE Completed(Ok(<<file.naxis2, file.naxis1>>))

\* process_cube: open, extract_cube_mmap, then the renderings into the
\* element's directory.
process_cube(file, writable, overflow_checks) ==
    IF ~file.opens THEN Completed(Err("Failed to open FITS"))
    ELSE TheOne({
        IF extracted.panicked \/ ~extracted.val.ok THEN extracted
        ELSE IF ~writable THEN Completed(Err("Failed to save grayscale image"))
        ELSE Completed(Ok([dimensions |-> extracted.val.val])) :
        extracted \in {CubeOfFile(file, overflow_checks)}})

\* The closure `process` of process_batch.
process(file, writable, overflow_checks) ==
    IF ~file.opens THEN Completed(Err("Failed to open"))
    ELSE TheOne({
        IF extracted.panicked \/ ~extracted.val.ok THEN extracted
        ELSE IF ~writable THEN Completed(Err("Failed to save grayscale image"))
        ELSE Completed(Ok([dimensions |-> extracted.val.val])) :
        extracted \in {ImageOfFile(file, overflow_checks)}})

\* SingleResult::Ok / SingleResult::Err; "done" / "error" in process_batch.
SingleResult(path, outcome) ==
    IF outcome.ok THEN [path |-> path, status |-> "done"]
    ELSE [path |-> path, status |-> "error", error |-> outcome.err]

CountStatus(results, status) ==
    Cardinality({i \in 1..Len(results) : results[i].status = status})

\* The par_iter().map(..).collect() of both commands: a panic in one
\* element's closure is resumed in the caller and no vector is collected.
CollectResults(outcomes) ==
    IF \E i \in 1..Len(outcomes) : outcomes[i].panicked
    THEN Panicked(outcomes[CHOOSE i \in 1..Len(outcomes) : outcomes[i].panicked].msg)
    ELSE Completed([i \in 1..Len(outcomes) |-> SingleResult(i, outcomes[i].val)])

\* run_pipeline on the resolved paths; dir_created is the outcome of
\* fs::create_dir_all(output_dir), writable that of the writes below it.
run_pipeline(files, dir_created, writable, overflow_checks) ==
    IF ~dir_created THEN Completed(Err("Failed to create pipeline output dir"))
    ELSE TheOne({
        IF results.panicked THEN results
        ELSE Completed(Ok([total_files |-> Len(files),
                           succeeded |-> CountStatus(results.val, "done"),
                           failed |-> CountStatus(results.val, "error"),
                           results |-> results.val])) :
        results \in {CollectResults([i \in 1..Len(files) |->
                                        process_cube(files[i], writable, overflow_checks)])}})

\* process_batch: the blocking task's panic comes back as a JoinError.
process_batch(files, dir_created, writable, overflow_checks) ==
    IF ~dir_created THEN Completed(Err("Failed to create output dir"))
    ELSE TheOne({
        IF results.panicked THEN Completed(Err("Task join failed"))
        ELSE Completed(Ok([total_files |-> Len(files),
                           succeeded |-> CountStatus(results.val, "done"),
                           failed |-> CountStatus(results.val, "error"),
                           results |-> results.val])) :
        results \in {CollectResults([i \in 1..Len(files) |->
                                        process(files[i], writable, overflow_checks)])}})

\* ---------------------------------------------------------------- SpecBatch
MaxBatch == 2
CubeBytes == 16
BatchFiles ==
    {BatchFile(opens, naxis1, naxis3, data_len) :
        opens \in BOOLEAN, naxis1 \in {-1, 2}, naxis3 \in {1, 2}, data_len \in {0, CubeBytes}}

InitBatch ==
    /\ \E files \in SeqsUpTo(BatchFiles, MaxBatch) \ {<<>>},
          dir_created \in BOOLEAN, writable \in BOOLEAN, overflow_checks \in BOOLEAN :
          batch = [files |-> files, dir_created |-> dir_created, writable |-> writable,
                   overflow_checks |-> overflow_checks, command |-> None, outcome |-> None]
    /\ mmap = Unused /\ cube = Unused /\ cache = Unused
    /\ InitThreads
    /\ walk = Unused /\ stack = Unused /\ align = Unused
    /\ rgb = Unused /\ calib = Unused /\ display = Unused

RunPipeline ==
    /\ batch.outcome = None
    /\ batch' = [batch EXCEPT
                    !.command = Some("run_pipeline"),
                    !.outcome = Some(run_pipeline(batch.files, batch.dir_created,
                                                  batch.writable, batch.overflow_checks))]
    /\ UNCHANGED <<mmap, cubeVars, walk, stack, align, rgb, calib, display>>

ProcessBatch ==
    /\ batch.outcome = None
    /\ batch' = [batch EXCEPT
                    !.command = Some("process_batch"),
                    !.outcome = Some(process_batch(batch.files, batch.dir_created,
                                                   batch.writable, batch.overflow_checks))]
    /\ UNCHANGED <<mmap, cubeVars, walk, stack, align, rgb, calib, display>>

NextBatch == RunPipeline \/ ProcessBatch

SpecBatch == InitBatch /\ [][NextBatch]_vars

\* ------------------------------------------------------- claims on SpecBatch
\* What the command does with element i when it is given that element alone.
Alone(i) ==
    IF batch.command = Some("run_pipeline")
    THEN run_pipeline(<<batch.files[i]>>, TRUE, batch.writable, batch.overflow_checks)
    ELSE process_batch(<<batch.files[i]>>, TRUE, batch.writable, batch.overflow_checks)
\* The batch was processed: its output directory was created.
Processed == batch.outcome # None /\ batch.dir_created
\* One status per input path, the counters adding up, and each element's
\* status the one it has by itself.
PerElementStatuses(r) ==
    /\ Len(r.results) = Len(batch.files)
    /\ r.total_files = r.succeeded + r.failed
    /\ r.total_files = Len(r.results)
    /\ r.succeeded = Cardinality({i \in 1..Len(r.results) : r.results[i].status = "done"})
    /\ \A i \in 1..Len(batch.files) :
          /\ r.results[i].path = i
          /\ \/ r.results[i].status = "done"
             \/ r.results[i].status = "error"
          /\ LET alone == Alone(i) IN
             (~alone.panicked /\ alone.val.ok) =>
                 r.results[i].status = alone.val.val.results[1].status

\* C20: run_pipeline (and the process_batch command) returns exactly one
\* per-element status for every input path, total_files = succeeded +
\* failed = number of per-element results, and the failure of one element
\* never prevents another element from being processed or changes its status.
C20_EveryElementReported ==
    Processed =>
        /\ ~batch.outcome[1].panicked
        /\ batch.outcome[1].val.ok
        /\ PerElementStatuses(batch.outcome[1].val.val)

\* The same when no element's processing panics.
ElementPanics(i) ==
    LET alone == Alone(i) IN alone.panicked \/ ~alone.val.ok
EveryElementReportedUnlessPanic ==
    (Processed /\ \A i \in 1..Len(batch.files) : ~ElementPanics(i)) =>
        /\ ~batch.outcome[1].panicked
        /\ batch.outcome[1].val.ok
        /\ PerElementStatuses(batch.outcome[1].val.val)
\* run_pipeline alone, in a build without overflow checks.
PipelineReportsEveryElement ==
    (Processed /\ batch.command = Some("run_pipeline") /\ ~batch.overflow_checks) =>
        /\ ~batch.outcome[1].panicked
        /\ batch.outcome[1].val.ok
        /\ PerElementStatuses(batch.outcome[1].val.val)

\* ================================================================
\* domain/fft.rs: the power spectrum
\* ================================================================
\* Complex values are kept exactly, as integer combinations
\* <<a0, a1, a2, a3>> of 1, z, z^2, z^3 for z = exp(2 pi i / 12), where
\* z^4 = z^2 - 1: the twiddle factors of every length that divides 12.
Cx(re) == <<re, 0, 0, 0>>
CxAdd(x, y) == [k \in 1..4 |-> x[k] + y[k]]
CxScale(n, x) == [k \in 1..4 |-> n * x[k]]
\* x * z.
CxTurn(x) == <<-x[4], x[1], x[2] + x[4], x[3]>>
RECURSIVE CxTurns(_, _)
CxTurns(x, k) == IF k = 0 THEN x ELSE CxTurns(CxTurn(x), k - 1)
RECURSIVE CxSum(_)
CxSum(xs) == IF xs = <<>> THEN Cx(0) ELSE CxAdd(Head(xs), CxSum(Tail(xs)))
CxMul(x, y) == CxSum([k \in 1..4 |-> CxScale(x[k], CxTurns(y, k - 1))])
CxConj(x) == CxSum([k \in 1..4 |-> CxScale(x[k], CxTurns(Cx(1), (12 - (k - 1)) % 12))])

\* Complex::norm: the square root of re^2 + im^2, kept as its square.
norm(c) == [squared |-> CxMul(c, CxConj(c))]

\* Fft::process of a forward plan of length n on a line:
\* out[k] = sum over j of line[j] * exp(-2 pi i j k / n).
fft_process(line) ==
    LET n == Len(line) IN
    [k \in 1..n |->
        CxSum([j \in 1..n |->
                  CxTurns(line[j], (12 - (((12 \div n) * ((j - 1) * (k - 1))) % 12)) % 12)])]

\* fft_rows: every chunk of cols values is transformed in place.
fft_rows(buf, rows, cols) ==
    [i \in 1..(rows * cols) |->
        fft_process([c \in 1..cols |-> buf[((i - 1) \div cols) * cols + c]])[((i - 1) % cols) + 1]]

\* fft_cols: every column of the (rows, cols) view is transformed in place.
fft_cols(buf, rows, cols) ==
    [i \in 1..(rows * cols) |->
        fft_process([r \in 1..rows |-> buf[(r - 1) * cols + ((i - 1) % cols) + 1]])[((i - 1) \div cols) + 1]]

\* fft_shift: shifted[dst_r][dst_c] = buf[(dst_r + rows/2) % rows][(dst_c + cols/2) % cols].
fft_shift(buf, rows, cols) ==
    [i \in 1..(rows * cols) |->
        buf[(((((i - 1) \div cols) + (rows \div 2)) % rows) * cols)
            + ((((i - 1) % cols) + (cols \div 2)) % cols) + 1]]

\* compute_power_spectrum, up to the two magnitudes it reports.
compute_power_spectrum(data) ==
    LET shifted == fft_shift(fft_cols(fft_rows([i \in 1..Len(data.px) |-> Cx(data.px[i])],
                                               data.rows, data.cols),
                                      data.rows, data.cols),
                             data.rows, data.cols)
    IN  [width |-> data.cols, height |-> data.rows,
         dc_magnitude |-> norm(shifted[((data.rows \div 2) * data.cols) + (data.cols \div 2) + 1])]

\* ------------------------------------------------------------------ SpecFft
MaxFftPixels == 9
FftSides == {1, 2, 3, 4}
FftPixels == {0, 1}
FftShapes == {s \in FftSides \X FftSides : s[1] * s[2] <= MaxFftPixels}
FftFrames ==
    UNION {{Frame(s[1], s[2], px) : px \in [1..(s[1] * s[2]) -> FftPixels]} : s \in FftShapes}

InitFft ==
    /\ \E data \in FftFrames : display = [data |-> data, spectrum |-> None]
    /\ mmap = Unused /\ cube = Unused /\ cache = Unused
    /\ InitThreads
    /\ walk = Unused /\ stack = Unused /\ align = Unused
    /\ rgb = Unused /\ calib = Unused /\ batch = Unused

ComputePowerSpectrum ==
    /\ display.spectrum = None
    /\ display' = [display EXCEPT !.spectrum = Some(compute_power_spectrum(display.data))]
    /\ UNCHANGED <<mmap, cubeVars, walk, stack, align, rgb, calib, batch>>

NextFft == ComputePowerSpectrum

SpecFft == InitFft /\ [][NextFft]_vars

\* ---------------------------------------------------------- claims on SpecFft
\* The index of the bin that fft_shift leaves at (H/2, W/2).
BinAtCentre ==
    fft_shift([i \in 1..(display.data.rows * display.data.cols) |-> i - 1],
              display.data.rows, display.data.cols)[
        ((display.data.rows \div 2) * display.data.cols) + (display.data.cols \div 2) + 1]
PixelSum == CxSum([i \in 1..Len(display.data.px) |-> Cx(display.data.px[i])])

\* C21: for every H >= 1 and W >= 1, fft_shift moves the zero-frequency bin
\* from index (0, 0) to index (H/2, W/2), the bin compute_power_spectrum
\* reads as dc_magnitude, so dc_magnitude is the magnitude of the sum of all
\* pixels of the frame.
C21_DcAtCentre ==
    display.spectrum # None =>
        /\ BinAtCentre = 0
        /\ display.spectrum[1].dc_magnitude = norm(PixelSum)

\* The same for frames whose sides are even or 1.
EvenSide(n) == n = 1 \/ n % 2 = 0
DcAtCentreOfEvenFrames ==
    (display.spectrum # None /\ EvenSide(display.data.rows) /\ EvenSide(display.data.cols)) =>
        /\ BinAtCentre = 0
        /\ display.spectrum[1].dc_magnitude = norm(PixelSum)

\* The magnitude alone.
DcMagnitudeIsSumMagnitude ==
    display.spectrum # None => display.spectrum[1].dc_magnitude = norm(PixelSum)

\* ================================================================
\* domain/fits_writer.rs: writing a FITS image
\* ================================================================
\* A string is the sequence of its characters; a character takes one byte
\* in UTF-8, or two (the one non-ASCII character drawn here).
Rep(c, n) == [i \in 1..n |-> c]
RECURSIVE Concat(_)
Concat(texts) == IF texts = <<>> THEN <<>> ELSE Head(texts) \o Concat(Tail(texts))
Utf8Width(c) == IF c = "é" THEN 2 ELSE 1
ByteLen(s) == Len(s) + Cardinality({i \in 1..Len(s) : Utf8Width(s[i]) = 2})
\* str::len is the byte length; the {:<n} and {:>n} of format! pad to n
\* characters and never cut.
PadRight(s, n) == s \o Rep(" ", IF Len(s) < n THEN n - Len(s) ELSE 0)
PadLeft(s, n) == Rep(" ", IF Len(s) < n THEN n - Len(s) ELSE 0) \o s
\* &s[..n] for n <= s.len(): the characters of the first n bytes; it panics
\* when byte n is inside a character.
CharsInBytes(s, n) == Cardinality({k \in 1..Len(s) : ByteLen(SubSeq(s, 1, k)) <= n})
ByteSlice(s, n) ==
    LET k == CharsInBytes(s, n) IN
    IF ByteLen(SubSeq(s, 1, k)) = n THEN Completed(SubSeq(s, 1, k))
    ELSE Panicked("byte index is not a char boundary")
\* str::trim.
RECURSIVE TrimStart(_)
TrimStart(s) == IF s # <<>> /\ Head(s) = " " THEN TrimStart(Tail(s)) ELSE s
RECURSIVE TrimEnd(_)
TrimEnd(s) == IF s # <<>> /\ s[Len(s)] = " " THEN TrimEnd(SubSeq(s, 1, Len(s) - 1)) ELSE s
Trim(s) == TrimEnd(TrimStart(s))

Digits == {"0", "1", "2", "3", "4", "5", "6", "7", "8", "9"}
\* trimmed.parse::<f64>().is_ok() || trimmed.parse::<i64>().is_ok(), on
\* strings without an exponent and without the spellings of inf and nan: an
\* optional sign, then digits with at most one point among them.
IsNumeric(s) ==
    LET body == IF s # <<>> /\ Head(s) \in {"+", "-"} THEN Tail(s) ELSE s IN
    /\ \A i \in 1..Len(body) : body[i] \in Digits \cup {"."}
    /\ \E i \in 1..Len(body) : body[i] \in Digits
    /\ Cardinality({i \in 1..Len(body) : body[i] = "."}) <= 1

S_HISTORY == <<"H", "I", "S", "T", "O", "R", "Y">>
S_COMMENT == <<"C", "O", "M", "M", "E", "N", "T">>

\* format!("{:<8}{:<72}", key, value)
CommentCardText(key, value) == PadRight(key, 8) \o PadRight(value, 72)

\* The value field: right-justified to 20 for T, F and numbers, quoted with
\* a minimum length of 8 otherwise.
FormattedValue(value) ==
    TheOne({
        IF trimmed = <<"T">> \/ trimmed = <<"F">> \/ IsNumeric(trimmed)
        THEN PadLeft(trimmed, 20)
        ELSE <<"'">> \o (IF ByteLen(trimmed) < 8 THEN PadRight(trimmed, 8) ELSE trimmed) \o <<"'">> :
        trimmed \in {Trim(value)}})

format_card(key, value) ==
    IF key = S_HISTORY \/ key = S_COMMENT THEN Completed(CommentCardText(key, value))
    ELSE TheOne({
        IF keyword.panicked THEN keyword
        ELSE TheOne({
            TheOne({IF cut.panicked THEN cut ELSE Completed(PadRight(cut.val, CARD_SIZE)) :
                    cut \in {ByteSlice(card, Min(ByteLen(card), CARD_SIZE))}}) :
            card \in {PadRight(keyword.val, 8) \o <<"=", " ">> \o FormattedValue(value)}}) :
        keyword \in {ByteSlice(key, Min(ByteLen(key), 8))}})

S_END == <<"E", "N", "D">>
\* The header block as written: the cards in order, the END card, then
\* spaces up to the next multiple of BLOCK_SIZE bytes.  A panic in
\* format_card ends the write.
SumBytes(texts) == ByteLen(Concat(texts))
write_header_block(cards) ==
    TheOne({
        IF \E i \in 1..Len(cards) : formatted[i].panicked
        THEN Panicked("byte index is not a char boundary")
        ELSE TheOne({
            Completed([cards |-> texts, end |-> PadRight(S_END, 80),
                       padding |-> (BLOCK_SIZE - ((SumBytes(texts) + 80) % BLOCK_SIZE)) % BLOCK_SIZE]) :
            texts \in {[i \in 1..Len(cards) |-> formatted[i].val]}}) :
        formatted \in {[i \in 1..Len(cards) |-> format_card(cards[i][1], cards[i][2])]}})

\* ---- the specification of the card formatter ----
MaxText == 90
S_SIMPLE == <<"S", "I", "M", "P", "L", "E">>
S_BITPIX == <<"B", "I", "T", "P", "I", "X">>
S_TELESCOP == <<"T", "E", "L", "E", "S", "C", "O", "P">>
CardKeys ==
    {S_SIMPLE, S_BITPIX, S_TELESCOP, S_HISTORY, S_COMMENT,
     <<"L", "O", "N", "G", "K", "E", "Y", "W", "O", "R", "D">>,
     <<"F", "I", "L", "T", "E", "R", "S", "é">>}
CardValues ==
    {Rep("x", n) : n \in 0..MaxText}
    \cup {<<"T">>, <<" ", "F", " ">>, <<"-", "3", "2">>, <<"1", ".", "0">>,
          <<"1", ".", "0", ".", "0">>, <<"J", "W", "S", "T">>, <<"-">>}
    \cup {Rep("é", n) : n \in {1, 36, 39, 40}}
    \cup {<<"a">> \o Rep("é", 40)}

InitCard ==
    /\ \E key \in CardKeys, value \in CardValues :
           mmap = [key |-> key, value |-> value, card |-> None, header |-> None]
    /\ cube = Unused /\ cache = Unused /\ InitThreads
    /\ walk = Unused /\ stack = Unused /\ align = Unused
    /\ rgb = Unused /\ calib = Unused /\ display = Unused /\ batch = Unused

FormatCard ==
    /\ mmap.card = None
    /\ mmap' = [mmap EXCEPT !.card = Some(format_card(mmap.key, mmap.value))]
    /\ UNCHANGED <<cubeVars, walk, stack, align, otherVars>>

\* A header of two cards: SIMPLE and the drawn one.
WriteHeaderBlock ==
    /\ mmap.header = None
    /\ mmap' = [mmap EXCEPT !.header =
                  Some(write_header_block(<<<<S_SIMPLE, <<"T">>>>, <<mmap.key, mmap.value>>>>))]
    /\ UNCHANGED <<cubeVars, walk, stack, align, otherVars>>

NextCard == FormatCard \/ WriteHeaderBlock
SpecCard == InitCard /\ [][NextCard]_vars

\* ---- C23: every card is exactly 80 characters ----
CardFormatted == mmap.card # None
HeaderWritten == mmap.header # None
CardIsEighty(c) == ~c.panicked /\ Len(c.val) = CARD_SIZE /\ ByteLen(c.val) = CARD_SIZE
CardsStartOnEighty(h) ==
    /\ ~h.panicked
    /\ \A i \in 1..Len(h.val.cards) : SumBytes(SubSeq(h.val.cards, 1, i - 1)) % CARD_SIZE = 0
    /\ SumBytes(h.val.cards) % CARD_SIZE = 0

\* C23: format_card returns exactly 80 characters for every keyword and
\* every value, HISTORY and COMMENT cards of any value length included, so
\* that every card and the END card of a written header start at a multiple
\* of 80 bytes.
C23_CardIsEightyCharacters ==
    /\ CardFormatted => CardIsEighty(mmap.card[1])
    /\ HeaderWritten => CardsStartOnEighty(mmap.header[1])

IsAscii(s) == \A i \in 1..Len(s) : Utf8Width(s[i]) = 1
IsCommentKey(key) == key = S_HISTORY \/ key = S_COMMENT
\* What the formatter does guarantee: an ASCII keyword with an ASCII value
\* gives an 80-byte card unless it is a HISTORY or COMMENT card whose value
\* is longer than 72 characters.
AsciiCardIsEighty ==
    (/\ CardFormatted
     /\ IsAscii(mmap.key) /\ IsAscii(mmap.value)
     /\ IsCommentKey(mmap.key) => Len(mmap.value) <= 72)
    => CardIsEighty(mmap.card[1])

\* A HISTORY card with a value of more than 72 characters has been
\* formatted: it is longer than 80.
LongHistoryCard ==
    /\ CardFormatted
    /\ mmap.key = S_HISTORY /\ IsAscii(mmap.value) /\ Len(mmap.value) > 72
    /\ Len(mmap.card[1].val) > CARD_SIZE

\* A valued card whose text has a two-byte character: 80 characters, more
\* than 80 bytes.
WideCard ==
    /\ CardFormatted
    /\ ~mmap.card[1].panicked
    /\ Len(mmap.card[1].val) = CARD_SIZE /\ ByteLen(mmap.card[1].val) > CARD_SIZE

\* The cut at byte 80, or at byte 8 of the keyword, falls inside a character.
CardPanics == CardFormatted /\ mmap.card[1].panicked

\* ---- write_fits_image: header cards, then the pixels big-endian ----
\* format!("{}", n) for a usize.
DigitOf(d) == <<"0", "1", "2", "3", "4", "5", "6", "7", "8", "9">>[d + 1]
RECURSIVE ToDec(_)
ToDec(n) == IF n < 10 THEN <<DigitOf(n)>> ELSE Append(ToDec(n \div 10), DigitOf(n % 10))

S_NAXIS == <<"N", "A", "X", "I", "S">>
S_NAXIS1 == <<"N", "A", "X", "I", "S", "1">>
S_NAXIS2 == <<"N", "A", "X", "I", "S", "2">>
S_NAXIS3 == <<"N", "A", "X", "I", "S", "3">>
S_BSCALE == <<"B", "S", "C", "A", "L", "E">>
S_BZERO == <<"B", "Z", "E", "R", "O">>
S_CRVAL1 == <<"C", "R", "V", "A", "L", "1">>
S_OBJECT == <<"O", "B", "J", "E", "C", "T">>
ProcessedBy == <<"P", "r", "o", "c", "e", "s", "s", "e", "d", " ", "b", "y", " ">>

\* The keys of WCS_KEYS and OBS_KEYS that the source headers drawn here carry.
WCS_KEYS == <<S_CRVAL1>>
OBS_KEYS == <<S_TELESCOP>>

\* HduHeader::get on a header kept as a list of (key, value) texts.
TextGet(index, key) ==
    IF \E i \in 1..Len(index) : index[i][1] = key
    THEN Some((CHOOSE p \in {index[i] : i \in 1..Len(index)} : p[1] = key)[2])
    ELSE None

RECURSIVE CopyKeys(_, _)
CopyKeys(keys, src) ==
    IF keys = <<>> THEN <<>>
    ELSE (IF TextGet(src, Head(keys)) = None THEN <<>>
          ELSE <<<<Head(keys), TextGet(src, Head(keys))[1]>>>>) \o CopyKeys(Tail(keys), src)

\* for (k, v) in &config.extra_headers { cards.retain(..); cards.push(..) }
RECURSIVE ApplyExtra(_, _)
ApplyExtra(cards, extra) ==
    IF extra = <<>> THEN cards
    ELSE ApplyExtra(Append(SelectSeq(cards, LAMBDA c : c[1] # Head(extra)[1]), Head(extra)),
                    Tail(extra))

ImageCards(image, source_header, config) ==
    TheOne({
        ApplyExtra(mandatory \o copied, config.extra_headers)
        \o (IF config.software = None THEN <<>>
            ELSE <<<<S_HISTORY, ProcessedBy \o config.software[1]>>>>) :
        mandatory \in {<< <<S_SIMPLE, <<"T">>>>, <<S_BITPIX, <<"-", "3", "2">>>>,
                          <<S_NAXIS, <<"2">>>>, <<S_NAXIS1, ToDec(image.cols)>>,
                          <<S_NAXIS2, ToDec(image.rows)>>, <<S_BSCALE, <<"1", ".", "0">>>>,
                          <<S_BZERO, <<"0", ".", "0">>>> >>},
        copied \in {IF source_header = None THEN <<>>
                    ELSE (IF config.copy_wcs THEN CopyKeys(WCS_KEYS, source_header[1]) ELSE <<>>)
                         \o (IF config.copy_obs_metadata
                             THEN CopyKeys(OBS_KEYS, source_header[1]) ELSE <<>>)}})

\* f32::to_be_bytes of the pixel values drawn here.
OtherF32 == Q(1, 7)
to_be_bytes(v) ==
    CASE v = NaN -> <<"7F", "C0", "00", "00">>
      [] v = Whole(0) -> <<"00", "00", "00", "00">>
      [] v = Whole(1) -> <<"3F", "80", "00", "00">>
      [] v = Whole(2) -> <<"40", "00", "00", "00">>
      [] v = Whole(-1) -> <<"BF", "80", "00", "00">>
      [] OTHER -> <<"3E", "12", "49", "25">>

\* write_f32_data: the rows in order, each pixel big-endian, then zero bytes
\* up to the next multiple of BLOCK_SIZE.
write_f32_data(image) ==
    [data |-> Concat([i \in 1..Len(image.px) |-> to_be_bytes(image.px[i])]),
     padding |-> (BLOCK_SIZE - ((image.rows * image.cols * 4) % BLOCK_SIZE)) % BLOCK_SIZE]

\* The file as written: the header block, then the data.  (File::create
\* and the writes succeed.)
write_fits_image(image, source_header, config) ==
    TheOne({
        IF header.panicked THEN header
        ELSE Completed(Ok([header |-> header.val, pixels |-> write_f32_data(image)])) :
        header \in {write_header_block(ImageCards(image, source_header, config))}})

\* The bytes of a written file (its header texts are ASCII: one byte a
\* character).
WrittenBytes(file) ==
    Concat(file.header.cards) \o file.header.end \o Rep(" ", file.header.padding)
    \o file.pixels.data \o Rep("00", file.pixels.padding)

\* ---- utils/mmap.rs over the bytes of a file ----
\* str::parse::<i64> on a trimmed text: an optional sign, then digits.
RECURSIVE DecValue(_)
DecValue(ds) ==
    IF ds = <<>> THEN 0
    ELSE 10 * DecValue(SubSeq(ds, 1, Len(ds) - 1))
         + (CHOOSE d \in 0..9 : DigitOf(d) = ds[Len(ds)])
ParseI64(text) ==
    LET body == IF text # <<>> /\ Head(text) \in {"+", "-"} THEN Tail(text) ELSE text IN
    IF body # <<>> /\ \A i \in 1..Len(body) : body[i] \in Digits
    THEN Some(IF Head(text) = "-" THEN -DecValue(body) ELSE DecValue(body))
    ELSE None
\* str::parse::<f64> on a trimmed text without exponent: the decimal fraction.
ParseF64(text) ==
    IF ~IsNumeric(text) THEN None
    ELSE LET body == IF Head(text) \in {"+", "-"} THEN Tail(text) ELSE text
             digits == SelectSeq(body, LAMBDA c : c # ".")
             point == IF \E i \in 1..Len(body) : body[i] = "."
                      THEN CHOOSE i \in 1..Len(body) : body[i] = "." ELSE Len(body) + 1
             den == DecValue(<<"1">> \o Rep("0", Len(body) - Min(point, Len(body))))
         IN  Some(Q(IF Head(text) = "-" THEN -DecValue(digits) ELSE DecValue(digits), den)[1])

text_get_i64(index, key) ==
    IF TextGet(index, key) = None THEN None ELSE ParseI64(Trim(TextGet(index, key)[1]))
text_get_f64(index, key) ==
    IF TextGet(index, key) = None THEN None ELSE ParseF64(Trim(TextGet(index, key)[1]))

\* extract_header_value: the text between the quotes of a quoted value,
\* else the text before a '/', trimmed.
FindChar(s, c) ==
    IF \E i \in 1..Len(s) : s[i] = c
    THEN Some(CHOOSE i \in 1..Len(s) : s[i] = c /\ \A j \in 1..(i - 1) : s[j] # c)
    ELSE None
extract_header_value(raw) ==
    LET trimmed == Trim(raw)
        quoted == trimmed # <<>> /\ Head(trimmed) = "'" /\ FindChar(Tail(trimmed), "'") # None
    IN  IF quoted
        THEN TrimEnd(SubSeq(Tail(trimmed), 1, FindChar(Tail(trimmed), "'")[1] - 1))
        ELSE IF FindChar(trimmed, "/") # None
        THEN Trim(SubSeq(trimmed, 1, FindChar(trimmed, "/")[1] - 1))
        ELSE trimmed

TextInsert(index, key, v) ==
    IF \E i \in 1..Len(index) : index[i][1] = key
    THEN [i \in 1..Len(index) |-> IF index[i][1] = key THEN <<key, v>> ELSE index[i]]
    ELSE Append(index, <<key, v>>)

\* The cards of one block, from card k on: END stops the header, a card
\* without "= " in bytes 8..10 is skipped.
RECURSIVE ScanBlock(_, _, _)
ScanBlock(block, k, st) ==
    IF k > CardsPerBlock THEN st
    ELSE LET card_bytes == SubSeq(block, (k - 1) * CARD_SIZE + 1, k * CARD_SIZE)
             keyword == Trim(SubSeq(card_bytes, 1, 8))
         IN  IF keyword = S_END THEN [st EXCEPT !.end_found = TRUE]
             ELSE IF SubSeq(card_bytes, 9, 10) # <<"=", " ">> THEN ScanBlock(block, k + 1, st)
             ELSE ScanBlock(block, k + 1,
                      [st EXCEPT !.index = TextInsert(@, keyword,
                                     extract_header_value(SubSeq(card_bytes, 11, CARD_SIZE)))])

RECURSIVE ScanHeader(_, _, _)
ScanHeader(bytes, pos, st) ==
    IF st.end_found THEN Ok([index |-> st.index, pos |-> pos])
    ELSE IF pos + BLOCK_SIZE > Len(bytes)
    THEN Err("Unexpected end of file while reading header")
    ELSE ScanHeader(bytes, pos + BLOCK_SIZE,
                    ScanBlock(SubSeq(bytes, pos + 1, pos + BLOCK_SIZE), 1, st))

\* HduHeader::data_byte_count and padded_data_bytes on the parsed texts.
RECURSIVE TextNaxisProduct(_, _, _)
TextNaxisProduct(index, i, naxis) ==
    IF i > naxis THEN 1
    ELSE unwrap_or(text_get_i64(index, S_NAXIS \o ToDec(i)), 1) * TextNaxisProduct(index, i + 1, naxis)
text_padded_data_bytes(index) ==
    LET naxis == unwrap_or(text_get_i64(index, S_NAXIS), 0)
        raw == IF naxis = 0 THEN 0
               ELSE TextNaxisProduct(index, 1, naxis)
                    * (Abs(unwrap_or(text_get_i64(index, S_BITPIX), 0)) \div 8)
    IN  ((raw + BLOCK_SIZE - 1) \div BLOCK_SIZE) * BLOCK_SIZE

parse_header_bytes(bytes, offset) ==
    TheOne({
        IF ~r.ok THEN r
        ELSE Ok([index |-> r.val.index, header_start |-> offset, data_start |-> r.val.pos,
                 next_hdu_offset |-> r.val.pos + text_padded_data_bytes(r.val.index)]) :
        r \in {ScanHeader(bytes, offset, [index |-> <<>>, end_found |-> FALSE])}})

\* f32::from_be_bytes, the inverse of to_be_bytes on the pixel values drawn.
from_be_bytes(c) ==
    IF \E v \in {NaN, Whole(0), Whole(1), Whole(2), Whole(-1)} : to_be_bytes(v) = c
    THEN CHOOSE v \in {NaN, Whole(0), Whole(1), Whole(2), Whole(-1)} : to_be_bytes(v) = c
    ELSE OtherF32
\* decode_pixels: for BITPIX -32, (v as f64 * bscale + bzero) as f32 of each
\* four bytes; nothing for an unsupported BITPIX (the integer and the f64
\* formats are not written here).
decode_bytes(raw, bitpix, bscale, bzero) ==
    IF bitpix = -32
    THEN [i \in 1..(Len(raw) \div 4) |->
             fadd(fmul(from_be_bytes(SubSeq(raw, 4 * i - 3, 4 * i)), <<bscale>>), <<bzero>>)]
    ELSE <<>>

RECURSIVE extract_image_bytes(_, _)
extract_image_bytes(bytes, offset) ==
    IF ~(offset < Len(bytes)) THEN Err("No 2D image block found")
    ELSE TheOne({
        IF ~parsed.ok THEN parsed
        ELSE TheOne({
            IF dims[1] >= 2 /\ dims[2] > 1 /\ dims[3] > 1
            THEN IF text_get_i64(parsed.val.index, S_BITPIX) = None
                 THEN Err("Missing BITPIX in image HDU")
                 ELSE TheOne({
                     IF parsed.val.data_start + slice_bytes > Len(bytes)
                     THEN Err("Image data exceeds file size")
                     ELSE TheOne({
                         IF Len(pixels) = dims[3] * dims[2]
                         THEN Ok(Frame(dims[3], dims[2], pixels))
                         ELSE Err("Failed to reshape image pixels") :
                         pixels \in {decode_bytes(
                             SubSeq(bytes, parsed.val.data_start + 1,
                                    parsed.val.data_start + slice_bytes),
                             text_get_i64(parsed.val.index, S_BITPIX)[1],
                             unwrap_or(text_get_f64(parsed.val.index, S_BSCALE), Whole(1)[1]),
                             unwrap_or(text_get_f64(parsed.val.index, S_BZERO), Whole(0)[1]))}}) :
                     slice_bytes \in {dims[2] * dims[3]
                         * (Abs(text_get_i64(parsed.val.index, S_BITPIX)[1]) \div 8)}})
            ELSE extract_image_bytes(bytes, parsed.val.next_hdu_offset) :
            dims \in {<<unwrap_or(text_get_i64(parsed.val.index, S_NAXIS), 0),
                        unwrap_or(text_get_i64(parsed.val.index, S_NAXIS1), 0),
                        unwrap_or(text_get_i64(parsed.val.index, S_NAXIS2), 0)>>}}) :
        parsed \in {parse_header_bytes(bytes, offset)}})

\* ---- the specification of writing a frame and reading it back ----
MaxFitsPixels == 4
FitsPixels == {NaN, Whole(0), Whole(1)}
FitsShapes == {s \in (1..MaxFitsPixels) \X (1..MaxFitsPixels) : s[1] * s[2] <= MaxFitsPixels}
FitsFrames == UNION {{Frame(s[1], s[2], px) : px \in [1..(s[1] * s[2]) -> FitsPixels]} : s \in FitsShapes}
DefaultWriteConfig ==
    [extra_headers |-> <<>>, copy_wcs |-> FALSE, copy_obs_metadata |-> FALSE, software |-> None]
SourceHeader == << <<S_CRVAL1, <<"1", ".", "5">>>>, <<S_TELESCOP, <<"J", "W", "S", "T">>>> >>
LongSoftware == 61
\* (source_header, config) pairs: the default, each copy flag with a source
\* header, an extra header, and software names short and long.
WriteConfigs ==
    {<<None, DefaultWriteConfig>>,
     <<Some(SourceHeader), [DefaultWriteConfig EXCEPT !.copy_wcs = TRUE]>>,
     <<Some(SourceHeader), [DefaultWriteConfig EXCEPT !.copy_obs_metadata = TRUE]>>,
     <<None, [DefaultWriteConfig EXCEPT !.copy_wcs = TRUE,
                                        !.extra_headers = <<<<S_OBJECT, <<"M", "3", "1">>>>>>]>>,
     <<None, [DefaultWriteConfig EXCEPT !.software = Some(<<"A", "s", "t", "r", "o">>)]>>,
     <<None, [DefaultWriteConfig EXCEPT !.software = Some(Rep("x", LongSoftware))]>>}

InitFits ==
    /\ \E image \in FitsFrames, sc \in WriteConfigs :
           mmap = [image |-> image, source_header |-> sc[1], config |-> sc[2],
                   file |-> None, read |-> None]
    /\ cube = Unused /\ cache = Unused /\ InitThreads
    /\ walk = Unused /\ stack = Unused /\ align = Unused
    /\ rgb = Unused /\ calib = Unused /\ display = Unused /\ batch = Unused

WriteFitsImage ==
    /\ mmap.file = None
    /\ mmap' = [mmap EXCEPT !.file = Some(write_fits_image(mmap.image, mmap.source_header, mmap.config))]
    /\ UNCHANGED <<cubeVars, walk, stack, align, otherVars>>

\* extract_image_mmap on the written file.
ExtractWrittenImage ==
    /\ mmap.file # None /\ ~mmap.file[1].panicked
    /\ mmap.read = None
    /\ mmap' = [mmap EXCEPT !.read = Some(extract_image_bytes(WrittenBytes(mmap.file[1].val.val), 0))]
    /\ UNCHANGED <<cubeVars, walk, stack, align, otherVars>>

NextFits == WriteFitsImage \/ ExtractWrittenImage
SpecFits == InitFits /\ [][NextFits]_vars

\* ---- C22: a written frame reads back unchanged ----
ReadBack == mmap.read # None
\* Pixel equality as the round-trip test takes it: NaN reads back as NaN.
SameFrame(a, b) == a.rows = b.rows /\ a.cols = b.cols /\ a.px = b.px

\* C22: for any frame of H >= 1 rows and W >= 1 columns, reading the file
\* written by write_fits_image back with extract_image_mmap succeeds, gives
\* the dimensions (H, W) and every pixel equal to the one written.
C22_WriteReadRoundTrip ==
    ReadBack => mmap.read[1].ok /\ SameFrame(mmap.read[1].val, mmap.image)

\* What the reader does return: the frame itself when both sides are at
\* least 2 and the HISTORY card fits its 72 columns.
HistoryFits == mmap.config.software = None \/ Len(ProcessedBy \o mmap.config.software[1]) <= 72
RoundTripOfWideFrames ==
    (ReadBack /\ mmap.image.rows >= 2 /\ mmap.image.cols >= 2 /\ HistoryFits)
    => mmap.read[1].ok /\ SameFrame(mmap.read[1].val, mmap.image)

\* A frame of one row or one column, written under the default
\* configuration, is not found by the reader.
OneRowNotFound ==
    /\ ReadBack
    /\ mmap.config = DefaultWriteConfig
    /\ mmap.image.rows = 1
    /\ ~mmap.read[1].ok /\ mmap.read[1].err = "No 2D image block found"

\* A 2 x 2 frame with a NaN pixel has been read back.
WideFrameReadBack ==
    /\ ReadBack /\ mmap.read[1].ok
    /\ mmap.image.rows = 2 /\ mmap.image.cols = 2
    /\ \E i \in 1..4 : mmap.image.px[i] = NaN

\* The END card of a file with an overlong HISTORY card is off the grid:
\* the reader runs into the data looking for it.
LongHistoryUnreadable ==
    /\ ReadBack /\ ~HistoryFits
    /\ mmap.image.rows >= 2 /\ mmap.image.cols >= 2
    /\ ~mmap.read[1].ok

\* ================================================================
\* domain/stacking.rs: stacking a frame with a translated copy of itself
\* ================================================================
\* The frames, the translations within MaxR and the copy are those of
\* SpecAlign; the default StackConfig has align on.
DefaultStackConfig == StackConfig(DefaultSigma, DefaultSigma, DefaultMaxIter, TRUE)

InitRealign ==
    /\ \E f \in AlignFrames :
       \E dy, dx \in (-MaxR)..MaxR :
          align = [frame |-> f, dy |-> dy, dx |-> dx, search_radius |-> SearchRadius,
                   target |-> None, result |-> None, stacked |-> None]
    /\ mmap = Unused /\ cube = Unused /\ cache = Unused
    /\ InitThreads
    /\ walk = Unused /\ stack = Unused
    /\ OthersUnused

\* stack_images on the frame and its translated copy.
StackTranslated ==
    /\ align.target # None /\ align.stacked = None
    /\ align' = [align EXCEPT !.stacked =
           Some(stack_images(<<align.frame, align.target[1]>>, DefaultStackConfig))]
    /\ UNCHANGED <<mmap, cubeVars, walk, stack, otherVars>>

NextRealign == ShiftImage \/ StackTranslated
SpecRealign == InitRealign /\ [][NextRealign]_vars

\* ---- C24: alignment brings a translated frame back onto frame 0 ----
Stacked == align.stacked # None
\* The copy of the second frame that stack_images combines.
AlignedCopy ==
    shift_image(align.target[1], align.stacked[1].val.offsets[2][1],
                align.stacked[1].val.offsets[2][2])
Overlap == {i \in 1..Len(align.frame.px) : is_finite(AlignedCopy.px[i])}

\* C24: with align on and a second frame that is frame 0 translated by an
\* integer (dy, dx) within the search radius, the aligned copy that
\* stack_images combines coincides with frame 0 wherever it is finite, so
\* that the stacked image equals frame 0 on the overlap.
C24_AlignedCopyCoincides ==
    Stacked =>
        /\ align.stacked[1].ok
        /\ \A i \in Overlap :
              /\ AlignedCopy.px[i] = align.frame.px[i]
              /\ is_finite(align.frame.px[i])
                    => align.stacked[1].val.image.px[i] = Ratio(align.frame.px[i][1], 1)

\* What stack_images does: the offset it measures is the translation of
\* the copy, and the aligned copy is the copy moved by that offset again,
\* which is frame 0 moved by twice the offset.
AlignedCopyIsMovedTwice ==
    Stacked =>
        AlignedCopy = shift_image(shift_image(align.frame, align.stacked[1].val.offsets[2][1],
                                              align.stacked[1].val.offsets[2][2]),
                                  align.stacked[1].val.offsets[2][1],
                                  align.stacked[1].val.offsets[2][2])
        \/ align.stacked[1].val.offsets[2] # <<align.dy, align.dx>>

\* A translated copy whose offset was measured exactly, and whose aligned
\* copy differs from frame 0 at a pixel where both are finite.
MisalignedAfterAlign ==
    /\ Stacked
    /\ <<align.dy, align.dx>> # <<0, 0>>
    /\ align.stacked[1].val.offsets[2] = <<align.dy, align.dx>>
    /\ \E i \in Overlap : is_finite(align.frame.px[i]) /\ AlignedCopy.px[i] # align.frame.px[i]

\* ================================================================
\* domain/drizzle.rs: dropping one frame onto the output grid
\* ================================================================
\* The f64 values met here are fractions with small power-of-two
\* denominators, on which the f64 operations are exact.
RInt(n) == Ratio(n, 1)
RAdd(a, b) == Ratio(a.num * b.den + b.num * a.den, a.den * b.den)
RSub(a, b) == Ratio(a.num * b.den - b.num * a.den, a.den * b.den)
RMul(a, b) == Ratio(a.num * b.num, a.den * b.den)
RDiv(a, b) == IF b.num < 0 THEN Ratio(-(a.num * b.den), -(a.den * b.num)) ELSE Ratio(a.num * b.den, a.den * b.num)
RLess(a, b) == a.num * b.den < b.num * a.den
RMin(a, b) == IF RLess(b, a) THEN b ELSE a
RMax(a, b) == IF RLess(a, b) THEN b ELSE a
RAbs(a) == Ratio(Abs(a.num), a.den)
\* f64::floor and f64::ceil, then as i64.
RFloor(a) == a.num \div a.den
RCeil(a) == -((-a.num) \div a.den)

\* overlap_area of the drop [ax1, ax2] x [ay1, ay2] and a cell.
overlap_area(ax1, ay1, ax2, ay2, bx1, by1, bx2, by2) ==
    RMul(RMax(RSub(RMin(ax2, bx2), RMax(ax1, bx1)), RInt(0)),
         RMax(RSub(RMin(ay2, by2), RMax(ay1, by1)), RInt(0)))

\* The sign of lanczos3(x) when it is not negligible, for x a multiple of
\* 1/2: 1 at 0; sin(pi x) vanishes to rounding at 1 and 2; positive on
\* (0, 1) and (2, 3), negative on (1, 2); 0 from 3 on.
lanczos3_sign(x) ==
    IF x.num = 0 THEN 1
    ELSE IF ~RLess(RAbs(x), RInt(3)) THEN 0
    ELSE IF x.den = 1 THEN 0
    ELSE IF RLess(RInt(1), RAbs(x)) /\ RLess(RAbs(x), RInt(2)) THEN -1
    ELSE 1

\* 12 ln 10 in thousandths: exp(-q) > 1e-12 iff q < 27.631...
LnThreshold == Ratio(27631, 1000)

\* The weight of the cell (ox, oy) for a drop centred at (cx, cy): for the
\* square kernel the area; for the others what decides w > 1e-12 and the
\* terms the weight is computed from.
Weight(kernel, cx, cy, half, ox, oy) ==
    TheOne({
        CASE kernel = "Square" ->
               TheOne({[positive |-> area.num > 0, term |-> area] :
                   area \in {overlap_area(RSub(cx, half), RSub(cy, half), RAdd(cx, half), RAdd(cy, half),
                                          RInt(ox), RInt(oy), RInt(ox + 1), RInt(oy + 1))}})
          [] kernel = "Gaussian" ->
               TheOne({[positive |-> RLess(q, LnThreshold), term |-> [exp_neg |-> q]] :
                   q \in {RDiv(RAdd(RMul(ddx, ddx), RMul(ddy, ddy)),
                               RMul(RInt(2), RMul(RMax(half, Ratio(1, 2)), RMax(half, Ratio(1, 2)))))}})
          [] kernel = "Lanczos3" ->
               [positive |-> lanczos3_sign(ddx) * lanczos3_sign(ddy) > 0,
                term |-> [lanczos |-> <<RAbs(ddx), RAbs(ddy)>>]] :
        ddx \in {RSub(RAdd(RInt(ox), Ratio(1, 2)), cx)},
        ddy \in {RSub(RAdd(RInt(oy), Ratio(1, 2)), cy)}})

\* i64 as usize: a negative value wraps to 2^64 + v, which is kept as v.
\* The cell ranges of one input pixel.
CellRange(ix, iy, dx, dy, scale, pixfrac, out_rows, out_cols) ==
    TheOne({
        [cx |-> c[1], cy |-> c[2], half |-> c[3],
         ox_min |-> Max(RFloor(RSub(c[1], c[3])), 0),
         ox_max |-> Min(RCeil(RAdd(c[1], c[3])), out_cols - 1),
         oy_min |-> Max(RFloor(RSub(c[2], c[3])), 0),
         oy_max |-> Min(RCeil(RAdd(c[2], c[3])), out_rows - 1)] :
        c \in {<<RMul(RAdd(RInt(ix), dx), scale), RMul(RAdd(RInt(iy), dy), scale),
                 RMul(RMul(pixfrac, scale), Ratio(1, 2))>>}})

\* oy_min..=oy_max and ox_min..=ox_max over usize.  A maximum that wrapped
\* gives a range of about 2^64 cells; it is followed for ScanReach cells
\* past the grid, beyond which no kernel weight of a drop left of or above
\* the grid exceeds 1e-12, and the loop does not end in any feasible time.
ScanReach == 16
Wrapped(v) == v < 0
SpanOf(lo, hi, side) ==
    IF Wrapped(hi) THEN [i \in 1..(side + ScanReach - lo + 1) |-> lo + i - 1]
    ELSE [i \in 1..(hi - lo + 1) |-> lo + i - 1]
\* The cells in the order the loops reach them: row by row, but only the
\* first row when the column range does not end.
CellsVisited(rng, out_rows, out_cols) ==
    TheOne({
        [i \in 1..(Len(ys) * Len(xs)) |-> <<ys[((i - 1) \div Len(xs)) + 1], xs[((i - 1) % Len(xs)) + 1]>>] :
        xs \in {SpanOf(rng.ox_min, rng.ox_max, out_cols)},
        ys \in {IF Wrapped(rng.ox_max)
                THEN SubSeq(SpanOf(rng.oy_min, rng.oy_max, out_rows), 1, 1)
                ELSE SpanOf(rng.oy_min, rng.oy_max, out_rows)}})
NeverEnds(rng) ==
    /\ Wrapped(rng.ox_max) \/ Wrapped(rng.oy_max)
    /\ Wrapped(rng.oy_max) \/ rng.oy_min <= rng.oy_max

\* if w > 1e-12 { self.data[idx].push(val); self.weights[idx] += w } over
\* the cells in order: the cells with a weight above 1e-12 are pushed to
\* until one of them has an index outside the accumulator.
RECURSIVE AscendingOf(_)
AscendingOf(S) ==
    IF S = {} THEN <<>>
    ELSE LET m == CHOOSE k \in S : \A j \in S : k <= j IN <<m>> \o AscendingOf(S \ {m})
DropOnCells(acc, rng, kernel, val, cells) ==
    LET idx == [k \in 1..Len(cells) |-> cells[k][1] * acc.out_cols + cells[k][2] + 1]
        w == [k \in 1..Len(cells) |->
                 Weight(kernel, rng.cx, rng.cy, rng.half, cells[k][2], cells[k][1])]
        heavy == {k \in 1..Len(cells) : w[k].positive}
        outside == {k \in heavy : idx[k] > Len(acc.data)}
        pushed == {k \in heavy : \A j \in outside : k < j}
        terms == [i \in 1..Len(acc.data) |->
                     LET ks == AscendingOf({k \in pushed : idx[k] = i})
                     IN  [j \in 1..Len(ks) |-> w[ks[j]].term]]
    IN  [status |-> IF outside # {} THEN "panicked"
                    ELSE IF NeverEnds(rng) THEN "stalled" ELSE "done",
         acc |-> [acc EXCEPT !.data = [i \in 1..Len(acc.data) |->
                                          acc.data[i] \o [j \in 1..Len(terms[i]) |-> val]],
                             !.weights = [i \in 1..Len(acc.data) |-> acc.weights[i] \o terms[i]]]]

\* The input pixels in loop order, from pixel i on.
RECURSIVE DrizzlePixels(_, _, _, _, _, _, _, _)
DrizzlePixels(acc, frame, i, dx, dy, scale, pixfrac, kernel) ==
    IF i > Len(frame.px) THEN [status |-> "done", acc |-> acc]
    ELSE IF ~is_finite(frame.px[i])
    THEN DrizzlePixels(acc, frame, i + 1, dx, dy, scale, pixfrac, kernel)
    ELSE TheOne({
        TheOne({
            IF r.status # "done" THEN r
            ELSE DrizzlePixels(r.acc, frame, i + 1, dx, dy, scale, pixfrac, kernel) :
            r \in {DropOnCells(acc, rng, kernel, frame.px[i], CellsVisited(rng, acc.out_rows, acc.out_cols))}}) :
        rng \in {CellRange((i - 1) % frame.cols, (i - 1) \div frame.cols, dx, dy, scale, pixfrac,
                           acc.out_rows, acc.out_cols)}})

drizzle_frame(acc, frame, dx, dy, scale, pixfrac, kernel) ==
    DrizzlePixels(acc, frame, 1, dx, dy, scale, pixfrac, kernel)

\* DrizzleAccumulator::new on the output dimensions drizzle_stack computes.
DrizzleAccumulator(out_rows, out_cols) ==
    [data |-> [i \in 1..(out_rows * out_cols) |-> <<>>],
     weights |-> [i \in 1..(out_rows * out_cols) |-> <<>>],
     out_rows |-> out_rows, out_cols |-> out_cols]

\* ---- the specification of drizzle_frame ----
MaxDrizzlePixels == 2
DrizzleShapes == {<<1, 1>>, <<1, MaxDrizzlePixels>>, <<MaxDrizzlePixels, 1>>}
DrizzleFrames ==
    UNION {{Frame(s[1], s[2], px) : px \in [1..(s[1] * s[2]) -> {NaN, Whole(1)}]} : s \in DrizzleShapes}
\* scale after clamp(1.0, 4.0), pixfrac after clamp(0.1, 1.0), offsets in
\* half pixels.
DrizzleScales == {RInt(1), RInt(2), RInt(4)}
DrizzlePixfracs == {Ratio(1, 2), RInt(1)}
DrizzleOffsets == {RInt(-2), RInt(-1), Ratio(-1, 2), RInt(0), Ratio(1, 2), RInt(1)}
DrizzleKernels == {"Square", "Gaussian", "Lanczos3"}

InitDrizzle ==
    /\ \E frame \in DrizzleFrames, scale \in DrizzleScales, pixfrac \in DrizzlePixfracs,
          dx \in DrizzleOffsets, dy \in DrizzleOffsets, kernel \in DrizzleKernels :
           display = [frame |-> frame, scale |-> scale, pixfrac |-> pixfrac, dx |-> dx, dy |-> dy,
                      kernel |-> kernel,
                      accumulator |-> DrizzleAccumulator(RCeil(RMul(RInt(frame.rows), scale)),
                                                         RCeil(RMul(RInt(frame.cols), scale))),
                      outcome |-> None]
    /\ mmap = Unused /\ cube = Unused /\ cache = Unused
    /\ InitThreads
    /\ walk = Unused /\ stack = Unused /\ align = Unused
    /\ rgb = Unused /\ calib = Unused /\ batch = Unused

DrizzleFrame ==
    /\ display.outcome = None
    /\ \E r \in {drizzle_frame(display.accumulator, display.frame, display.dx, display.dy,
                               display.scale, display.pixfrac, display.kernel)} :
           display' = [display EXCEPT !.accumulator = r.acc, !.outcome = Some(r.status)]
    /\ UNCHANGED <<mmap, cubeVars, walk, stack, align, rgb, calib, batch>>

NextDrizzle == DrizzleFrame
SpecDrizzle == InitDrizzle /\ [][NextDrizzle]_vars

\* ---- C25: the cell ranges stay inside the output grid ----
Drizzled == display.outcome # None
RangeOfPixel(i) ==
    CellRange((i - 1) % display.frame.cols, (i - 1) \div display.frame.cols, display.dx, display.dy,
              display.scale, display.pixfrac, display.accumulator.out_rows, display.accumulator.out_cols)
FinitePixels == {i \in 1..Len(display.frame.px) : is_finite(display.frame.px[i])}
\* Every cell of the ranges is a cell of the grid.
RangeInsideGrid(rng) ==
    \/ ULess(rng.ox_max, rng.ox_min) \/ ULess(rng.oy_max, rng.oy_min)
    \/ /\ 0 <= rng.ox_min /\ ~Wrapped(rng.ox_max) /\ rng.ox_max <= display.accumulator.out_cols - 1
       /\ 0 <= rng.oy_min /\ ~Wrapped(rng.oy_max) /\ rng.oy_max <= display.accumulator.out_rows - 1

\* C25: the output-cell ranges drizzle_frame loops over lie inside the
\* output grid and hold only cells around the drop, so that the loops take
\* a bounded number of steps and never index outside the accumulator, also
\* for drops entirely left of or above the grid.
C25_RangesInsideGrid ==
    Drizzled =>
        /\ \A i \in FinitePixels : RangeInsideGrid(RangeOfPixel(i))
        /\ display.outcome[1] = "done"

\* What the ranges do guarantee: when no drop of the frame ends a whole
\* cell or more before column 0 or row 0, every range is inside the grid
\* and the frame is dropped.
NoDropBeforeGrid ==
    \A i \in FinitePixels :
        /\ RCeil(RAdd(RangeOfPixel(i).cx, RangeOfPixel(i).half)) >= 0
        /\ RCeil(RAdd(RangeOfPixel(i).cy, RangeOfPixel(i).half)) >= 0
RangesInsideGridOtherwise ==
    (Drizzled /\ NoDropBeforeGrid) =>
        /\ \A i \in FinitePixels : RangeInsideGrid(RangeOfPixel(i))
        /\ display.outcome[1] = "done"

\* A drop left of the grid sent the loop over the wrapped column range.
DropLeftOfGridStalls ==
    /\ Drizzled /\ display.outcome[1] = "stalled"
    /\ \E i \in FinitePixels : Wrapped(RangeOfPixel(i).ox_max)
\* A drop before the grid indexed outside the accumulator.
DropIndexesOutside == Drizzled /\ display.outcome[1] = "panicked"

\* ================================================================
\* domain/cube.rs and domain/lazy_cube.rs: collapsing a cube along z
\* ================================================================
\* A cube is its depth frames in z order; column i is voxel i of each.
VoxelColumn(frames, i) == [z \in 1..Len(frames) |-> frames[z].px[i]]
\* v.is_finite() && v != 0.0
FiniteNonZero(v) == f32_is_finite(v) /\ v[1].num # 0
\* stats::is_valid_pixel: v.is_finite() && v > PADDING_THRESHOLD
ValidVoxel(v) == f32_is_finite(v) /\ is_valid_pixel(v)

\* The voxels of a column the lazy collapse keeps.
LazyKept(col) == SelectSeq(col, ValidVoxel)

\* The running sum: a positive infinity among the values makes it infinite
\* (no negative infinity is drawn).
SumOfKept(vals) == IF \E j \in 1..Len(vals) : vals[j] = PosInf THEN PosInf ELSE FSum(vals)
\* sum_finite_scalar: the sum and the count of the kept values.
sum_finite_scalar(data) ==
    [sum |-> SumOfKept(SelectSeq(data, FiniteNonZero)), count |-> Len(SelectSeq(data, FiniteNonZero))]
\* sum_finite_avx2: whole registers are masked by (v == v) && (v != 0),
\* ordered compares that only NaN and zero fail; the rest is scalar.
OrderedNonZero(v) == v # NaN /\ v[1].num # 0
sum_finite_avx2(data) ==
    TheOne({
        [sum |-> SumOfKept(SelectSeq(SubSeq(data, 1, base), OrderedNonZero) \o <<rest.sum>>),
         count |-> Len(SelectSeq(SubSeq(data, 1, base), OrderedNonZero)) + rest.count] :
        base \in {(Len(data) \div Lanes) * Lanes},
        rest \in {sum_finite_scalar(SubSeq(data, (Len(data) \div Lanes) * Lanes + 1, Len(data)))}})

\* (sum / count as f64) as f32, or 0.0 for an empty column.
MeanOfSum(s) == IF s.count > 0 THEN fdiv(s.sum, Whole(s.count)) ELSE Whole(0)
MedianOfKept(vals) == IF vals = <<>> THEN Whole(0) ELSE SelectNth(vals, Len(vals) \div 2)

collapse_mean_simd(frames, use_avx2) ==
    Frame(frames[1].rows, frames[1].cols,
          [i \in 1..Len(frames[1].px) |->
              MeanOfSum(IF use_avx2 THEN sum_finite_avx2(VoxelColumn(frames, i))
                        ELSE sum_finite_scalar(VoxelColumn(frames, i)))])
collapse_mean(frames, use_avx2) == collapse_mean_simd(frames, use_avx2)
collapse_median(frames) ==
    Frame(frames[1].rows, frames[1].cols,
          [i \in 1..Len(frames[1].px) |->
              MedianOfKept(SelectSeq(VoxelColumn(frames, i), FiniteNonZero))])

\* The lazy collapses read frame z with get_frame(z), which on a cube that
\* loads returns the frame.
collapse_mean_lazy(frames) ==
    Ok(Frame(frames[1].rows, frames[1].cols,
             [i \in 1..Len(frames[1].px) |->
                 TheOne({MeanOfSum([sum |-> SumOfKept(kept), count |-> Len(kept)]) :
                         kept \in {LazyKept(VoxelColumn(frames, i))}})]))
collapse_median_lazy(frames) ==
    Ok(Frame(frames[1].rows, frames[1].cols,
             [i \in 1..Len(frames[1].px) |-> MedianOfKept(LazyKept(VoxelColumn(frames, i)))]))

\* ---- the specification of the four collapses ----
MaxCollapseDepth == 3
Voxels == {NaN, PosInf, Whole(-1), Whole(0), Whole(1), Whole(2)}
\* Cubes of one pixel and depth up to MaxCollapseDepth, of two pixels and
\* depth 1, and of one pixel and one full register of depth.
CollapseCubes ==
    UNION {{[z \in 1..d |-> Frame(1, 1, <<col[z]>>)] : col \in [1..d -> Voxels]} : d \in 1..MaxCollapseDepth}
    \cup {<<Frame(1, 2, <<a, b>>)>> : a \in Voxels, b \in Voxels}
    \cup {[z \in 1..Lanes |-> Frame(1, 1, <<IF z = 1 THEN a ELSE IF z = 2 THEN b ELSE fill>>)] :
             a \in Voxels, b \in Voxels, fill \in {Whole(1), PosInf}}

InitCollapse ==
    /\ \E frames \in CollapseCubes, use_avx2 \in BOOLEAN :
           display = [frames |-> frames, use_avx2 |-> use_avx2, mean |-> None, mean_lazy |-> None,
                      median |-> None, median_lazy |-> None]
    /\ mmap = Unused /\ cube = Unused /\ cache = Unused
    /\ InitThreads
    /\ walk = Unused /\ stack = Unused /\ align = Unused
    /\ rgb = Unused /\ calib = Unused /\ batch = Unused

CollapseMean ==
    /\ display.mean = None
    /\ display' = [display EXCEPT !.mean = Some(collapse_mean(display.frames, display.use_avx2))]
    /\ UNCHANGED <<mmap, cubeVars, walk, stack, align, rgb, calib, batch>>
CollapseMeanLazy ==
    /\ display.mean_lazy = None
    /\ display' = [display EXCEPT !.mean_lazy = Some(collapse_mean_lazy(display.frames))]
    /\ UNCHANGED <<mmap, cubeVars, walk, stack, align, rgb, calib, batch>>
CollapseMedian ==
    /\ display.median = None
    /\ display' = [display EXCEPT !.median = Some(collapse_median(display.frames))]
    /\ UNCHANGED <<mmap, cubeVars, walk, stack, align, rgb, calib, batch>>
CollapseMedianLazy ==
    /\ display.median_lazy = None
    /\ display' = [display EXCEPT !.median_lazy = Some(collapse_median_lazy(display.frames))]
    /\ UNCHANGED <<mmap, cubeVars, walk, stack, align, rgb, calib, batch>>

NextCollapse == CollapseMean \/ CollapseMeanLazy \/ CollapseMedian \/ CollapseMedianLazy
SpecCollapse == InitCollapse /\ [][NextCollapse]_vars

\* ---- C26: the lazy collapses agree with the eager ones ----
BothMeans == display.mean # None /\ display.mean_lazy # None
BothMedians == display.median # None /\ display.median_lazy # None

\* C26: collapse_mean_lazy and collapse_median_lazy return the same image
\* as collapse_mean and collapse_median on the loaded cube.
C26_LazyAgreesWithEager ==
    /\ BothMeans => display.mean_lazy[1].ok /\ display.mean_lazy[1].val = display.mean[1]
    /\ BothMedians => display.median_lazy[1].ok /\ display.median_lazy[1].val = display.median[1]

\* What does hold: they agree on cubes whose voxels are NaN, zero or above
\* the padding threshold.
AllVoxels == UNION {{display.frames[z].px[i] : i \in 1..Len(display.frames[z].px)} : z \in 1..Len(display.frames)}
NoVoxelBetweenTests == \A v \in AllVoxels : FiniteNonZero(v) = ValidVoxel(v) /\ OrderedNonZero(v) = ValidVoxel(v)
LazyAgreesOnPlainCubes ==
    NoVoxelBetweenTests =>
        /\ BothMeans => display.mean_lazy[1].ok /\ display.mean_lazy[1].val = display.mean[1]
        /\ BothMedians => display.median_lazy[1].ok /\ display.median_lazy[1].val = display.median[1]

\* A cube with a negative voxel has been collapsed both ways: the eager mean
\* counts the voxel, the lazy mean does not.
NegativeVoxelSplitsMeans ==
    /\ BothMeans
    /\ display.frames = <<Frame(1, 1, <<Whole(-1)>>), Frame(1, 1, <<Whole(2)>>)>>
    /\ display.mean[1].px = <<Q(1, 2)>>
    /\ display.mean_lazy[1].val.px = <<Whole(2)>>

\* ================================================================
\* domain/scnr.rs: green-cast removal
\* ================================================================
\* f32::min and f32::max: the other operand when one is NaN.
f32_min(a, b) == IF a = NaN THEN b ELSE IF b = NaN THEN a ELSE IF flt(b[1], a[1]) THEN b ELSE a
f32_max(a, b) == IF a = NaN THEN b ELSE IF b = NaN THEN a ELSE IF flt(a[1], b[1]) THEN b ELSE a

green_limit(r, b, method) ==
    IF method = "AverageNeutral" THEN fmul(fadd(r, b), Q(1, 2)) ELSE f32_max(r, b)

LumR == Q(2126, 10000)
LumG == Q(7152, 10000)
LumB == Q(722, 10000)

\* (g_corrected + (lum_before - lum_after) / 0.7152).max(0.0)
PreserveLuminance(rv, gv, bv, g_corrected) ==
    f32_max(fadd(g_corrected,
                 fdiv(fsub(fadd(fadd(fmul(LumR, rv), fmul(LumG, gv)), fmul(LumB, bv)),
                           fadd(fadd(fmul(LumR, rv), fmul(LumG, g_corrected)), fmul(LumB, bv))),
                      LumG)),
            Whole(0))

\* The new green of one pixel.
ScnrPixel(rv, gv, bv, amount, method, preserve) ==
    TheOne({
        fadd(gv, fmul(amount, fsub(IF preserve THEN PreserveLuminance(rv, gv, bv, g_corrected)
                                   ELSE g_corrected, gv))) :
        g_corrected \in {f32_min(gv, green_limit(rv, bv, method))}})

\* amount.clamp(0.0, 1.0)
ClampAmount(a) == f32_max(Whole(0), f32_min(a, Whole(1)))

\* apply_scnr_inplace: the green frame afterwards, or the panic of the
\* dimension assertions.
apply_scnr_inplace(r, g, b, config) ==
    IF dim(r) # dim(g) \/ dim(g) # dim(b) THEN Panicked("assertion failed: left == right")
    ELSE IF flt(ClampAmount(config.amount)[1], Q(1, PaddingDen)[1]) THEN Completed(g)
    ELSE Completed(Frame(g.rows, g.cols,
             [i \in 1..Len(g.px) |->
                 ScnrPixel(r.px[i], g.px[i], b.px[i], ClampAmount(config.amount),
                           config.method, config.preserve_luminance)]))

\* ---- the specification of apply_scnr_inplace ----
MaxScnrPixels == 2
ScnrValues == {NaN, Whole(-1), Whole(0), Whole(1), Whole(2)}
ScnrAmounts == {Whole(0), Q(1, 2), Whole(1), Whole(2)}
\* One-pixel frames of every value, frames of MaxScnrPixels pixels of 0 and
\* 1, and a green frame of another shape.
ScnrChannels ==
    {<<Frame(1, 1, <<rv>>), Frame(1, 1, <<gv>>), Frame(1, 1, <<bv>>)>> :
        rv \in ScnrValues, gv \in ScnrValues, bv \in ScnrValues}
    \cup {<<Frame(1, MaxScnrPixels, rp), Frame(1, MaxScnrPixels, gp), Frame(1, MaxScnrPixels, rp)>> :
            rp \in [1..MaxScnrPixels -> {Whole(0), Whole(1)}],
            gp \in [1..MaxScnrPixels -> {Whole(0), Whole(1), Whole(2)}]}
    \cup {<<Frame(1, 1, <<Whole(1)>>), Frame(1, MaxScnrPixels, [i \in 1..MaxScnrPixels |-> Whole(1)]),
            Frame(1, 1, <<Whole(1)>>)>>}

InitScnr ==
    /\ \E ch \in ScnrChannels, amount \in ScnrAmounts, preserve \in BOOLEAN,
          method \in {"AverageNeutral", "MaximumNeutral"} :
           display = [r |-> ch[1], g |-> ch[2], b |-> ch[3], g_before |-> ch[2],
                      config |-> [method |-> method, amount |-> amount, preserve_luminance |-> preserve],
                      outcome |-> None]
    /\ mmap = Unused /\ cube = Unused /\ cache = Unused
    /\ InitThreads
    /\ walk = Unused /\ stack = Unused /\ align = Unused
    /\ rgb = Unused /\ calib = Unused /\ batch = Unused

ApplyScnr ==
    /\ display.outcome = None
    /\ \E done \in {apply_scnr_inplace(display.r, display.g, display.b, display.config)} :
           display' = [display EXCEPT !.g = IF done.panicked THEN @ ELSE done.val,
                                      !.outcome = Some(done)]
    /\ UNCHANGED <<mmap, cubeVars, walk, stack, align, rgb, calib, batch>>

NextScnr == ApplyScnr
SpecScnr == InitScnr /\ [][NextScnr]_vars

\* ---- C29: at full amount no green is left above its neutral limit ----
ScnrApplied == display.outcome # None /\ ~display.outcome[1].panicked
FullAmount == display.config.amount = Whole(1)
\* Pixels whose three values are numbers.
NumberPixels ==
    {i \in 1..Len(display.g.px) :
        display.r.px[i] # NaN /\ display.g_before.px[i] # NaN /\ display.b.px[i] # NaN}
AboveLimit(i) ==
    flt(green_limit(display.r.px[i], display.b.px[i], display.config.method)[1], display.g.px[i][1])
Increased(i) == flt(display.g_before.px[i][1], display.g.px[i][1])

\* C29: after apply_scnr_inplace with amount = 1 no pixel has G above its
\* neutral limit, for either value of preserve_luminance, and G is never
\* increased.  (R and B are not written: they are passed by shared
\* reference.)
C29_GreenWithinLimit ==
    (ScnrApplied /\ FullAmount) => \A i \in NumberPixels : ~AboveLimit(i) /\ ~Increased(i)

\* What does hold: the same without preserve_luminance.
GreenWithinLimitWithoutPreserve ==
    (ScnrApplied /\ FullAmount /\ ~display.config.preserve_luminance)
    => \A i \in NumberPixels : ~AboveLimit(i) /\ ~Increased(i)

\* With preserve_luminance a green above its limit comes back unchanged.
PreservedGreenStaysAbove ==
    /\ ScnrApplied /\ FullAmount /\ display.config.preserve_luminance
    /\ \E i \in NumberPixels :
          /\ flt(green_limit(display.r.px[i], display.b.px[i], display.config.method)[1],
                 display.g_before.px[i][1])
          /\ display.g.px[i] = display.g_before.px[i]
\* With preserve_luminance a negative green is raised to 0.
NegativeGreenRaised ==
    /\ ScnrApplied /\ FullAmount /\ display.config.preserve_luminance
    /\ \E i \in NumberPixels : Increased(i)

\* ================================================================
\* domain/lazy_cube.rs: global statistics from sampled frames
\* ================================================================
\* (0..naxis3).step_by(step) for step = naxis3 / min(32, naxis3) when
\* naxis3 > 32, else 1.
SAMPLE_FRAMES == 32
SampleStep(naxis3) ==
    IF naxis3 > Min(SAMPLE_FRAMES, naxis3) THEN naxis3 \div Min(SAMPLE_FRAMES, naxis3) ELSE 1
SampledFrames(naxis3) ==
    [k \in 1..CeilDiv(naxis3, SampleStep(naxis3)) |-> (k - 1) * SampleStep(naxis3)]

\* The statistics of the valid sampled pixels: median, 1.4826 * MAD floored
\* at 1e-10, and the values of rank floor(0.01 n) and min(floor(0.999 n), n - 1).
\* 1e-10, below every nonzero deviation met here; it is kept as a value of
\* its own, 10^-10.
SigmaFloorF32 == <<[num |-> 1, den |-> 1, exp10 |-> -10]>>
MadSigma(dev) == IF dev[1].num = 0 THEN SigmaFloorF32 ELSE fmul(dev, Q(7413, 5000))
StreamingStats(sampled) ==
    IF sampled = <<>> THEN [median |-> Whole(0), sigma |-> Whole(1), low |-> Whole(0), high |-> Whole(1)]
    ELSE TheOne({
        [median |-> median,
         sigma |-> MadSigma(SelectNth([j \in 1..Len(sampled) |->
                                          IF flt(sampled[j][1], median[1]) THEN fsub(median, sampled[j])
                                          ELSE fsub(sampled[j], median)],
                                      Len(sampled) \div 2)),
         low |-> SelectNth(sampled, Len(sampled) \div 100),
         high |-> SelectNth(sampled, Min((Len(sampled) * 999) \div 1000, Len(sampled) - 1))] :
        median \in {SelectNth(sampled, Len(sampled) \div 2)}})

\* get_frame(z) on a cube that loads returns frame z; frames are one pixel.
compute_global_stats_streaming(frames) ==
    TheOne({
        Ok([decoded |-> zs,
            stats |-> StreamingStats(SelectSeq([k \in 1..Len(zs) |-> frames[zs[k] + 1]], ValidVoxel))]) :
        zs \in {SampledFrames(Len(frames))}})

\* ---- the specification of the streaming statistics ----
MaxStreamDepth == 70
\* Cubes of one-pixel frames: z + 1 in frame z, 1 everywhere, nothing valid.
StreamPatterns == {"ramp", "flat", "blank"}
StreamCube(depth, pattern) ==
    [z \in 1..depth |-> IF pattern = "ramp" THEN Whole(z) ELSE IF pattern = "flat" THEN Whole(1) ELSE NaN]

InitStream ==
    /\ \E depth \in 1..MaxStreamDepth, pattern \in StreamPatterns :
           display = [frames |-> StreamCube(depth, pattern), result |-> None]
    /\ mmap = Unused /\ cube = Unused /\ cache = Unused
    /\ InitThreads
    /\ walk = Unused /\ stack = Unused /\ align = Unused
    /\ rgb = Unused /\ calib = Unused /\ batch = Unused

ComputeGlobalStatsStreaming ==
    /\ display.result = None
    /\ display' = [display EXCEPT !.result = Some(compute_global_stats_streaming(display.frames))]
    /\ UNCHANGED <<mmap, cubeVars, walk, stack, align, rgb, calib, batch>>

NextStream == ComputeGlobalStatsStreaming
SpecStream == InitStream /\ [][NextStream]_vars

\* ---- C30: at most 32 frames are decoded, evenly spaced ----
StatsComputed == display.result # None
Decoded == display.result[1].val.decoded
EvenlySpaced(zs) == \A k \in 1..(Len(zs) - 1) : zs[k + 1] - zs[k] = zs[2] - zs[1]

\* C30: compute_global_stats_streaming decodes at most 32 frames, evenly
\* spaced, for every depth D >= 1.
C30_AtMostThirtyTwoFrames ==
    StatsComputed =>
        /\ display.result[1].ok
        /\ Len(Decoded) <= SAMPLE_FRAMES
        /\ EvenlySpaced(Decoded)

\* What does hold: the frames are evenly spaced from frame 0, fewer than
\* 64 of them, and at most 32 when the depth is at most 32 or a multiple
\* of 32.
FewerThanSixtyFourFrames ==
    StatsComputed =>
        /\ display.result[1].ok
        /\ Decoded[1] = 0 /\ EvenlySpaced(Decoded)
        /\ Len(Decoded) < 2 * SAMPLE_FRAMES
        /\ (Len(display.frames) <= SAMPLE_FRAMES \/ Len(display.frames) % SAMPLE_FRAMES = 0)
              => Len(Decoded) <= SAMPLE_FRAMES

\* A cube of 63 frames: the step is 1 and all 63 are decoded.
SixtyThreeFramesDecoded ==
    StatsComputed /\ Len(display.frames) = 63 /\ Len(Decoded) = 63

\* ================================================================
\* domain/pipeline.rs and commands/image.rs: where the outputs go
\* ================================================================
\* A path is a directory and a file name; a file name is its components
\* between the dots.
FsPath(dir, name) == [dir |-> dir, name |-> name]
\* Path::file_stem: the name without its last component.
file_stem(path) == IF Len(path.name) > 1 THEN SubSeq(path.name, 1, Len(path.name) - 1) ELSE path.name
\* Path::extension.
extension(path) == IF Len(path.name) > 1 THEN Some(path.name[Len(path.name)]) ELSE None
to_ascii_lowercase(s) == IF s = "FITS" THEN "fits" ELSE s
is_fits_path(path) ==
    extension(path) # None /\ to_ascii_lowercase(extension(path)[1]) \in {"fits", "fit", "fts"}

\* The file names drawn, in the order of Path's comparison.
FileNames ==
    << <<"x", "FITS">>, <<"x", "fit">>, <<"x", "fits">>, <<"x", "txt">>, <<"x", "v2", "fits">>,
       <<"y", "fits">> >>
NameRank(name) == CHOOSE k \in 1..Len(FileNames) : FileNames[k] = name
\* fits.sort() on the files of one directory.
RECURSIVE SortByName(_)
SortByName(S) ==
    IF S = {} THEN <<>>
    ELSE LET first == CHOOSE p \in S : \A q \in S : NameRank(p.name) <= NameRank(q.name)
         IN  <<first>> \o SortByName(S \ {first})

\* resolve_input on a directory: its FITS files, sorted; an error if none.
resolve_dir(dir, files) ==
    TheOne({IF fits = {} THEN Err("No .fits files found in directory") ELSE Ok(SortByName(fits)) :
            fits \in {{FsPath(f.path.dir, f.path.name) : f \in {g \in files : g.path.dir = dir /\ is_fits_path(g.path)}}}})

\* The files process_cube writes for one input under output_dir/stem, when
\* the cube loads.
CubeOutputs(output_dir, path) ==
    {FsPath(<<output_dir>> \o file_stem(path), <<"collapsed_mean", "png">>),
     FsPath(<<output_dir>> \o file_stem(path), <<"collapsed_median", "png">>),
     FsPath(<<output_dir>> \o file_stem(path) \o <<"frames">>, <<"frame_0000", "png">>)}
\* The file process_batch writes for one input: output_dir/stem.png.
ImageOutput(output_dir, path) == {FsPath(<<output_dir>>, file_stem(path) \o <<"png">>)}

Loads(files, path) == \E f \in files : f.path = path /\ f.loads

\* The outputs written, input by input.
pipeline_outputs(dir, files, output_dir) ==
    TheOne({
        IF ~resolved.ok THEN resolved
        ELSE Ok([k \in 1..Len(resolved.val) |->
                    [path |-> resolved.val[k],
                     written |-> IF Loads(files, resolved.val[k])
                                 THEN CubeOutputs(output_dir, resolved.val[k]) ELSE {}]]) :
        resolved \in {resolve_dir(dir, files)}})
batch_outputs(paths, files, output_dir) ==
    Ok([k \in 1..Len(paths) |->
           [path |-> paths[k],
            written |-> IF Loads(files, paths[k]) THEN ImageOutput(output_dir, paths[k]) ELSE {}]])

\* ---- the specification of the output paths ----
MaxInputs == 2
InputDirs == {"a", "b"}
InputPaths == {FsPath(d, FileNames[k]) : d \in InputDirs, k \in 1..Len(FileNames)}
\* Up to MaxInputs distinct files, each of which loads or does not.
InputLists ==
    {ps \in UNION {[1..n -> InputPaths] : n \in 1..MaxInputs} :
        \A i, j \in 1..Len(ps) : i # j => ps[i] # ps[j]}

InitOutputs ==
    /\ \E ps \in InputLists, loads \in [1..MaxInputs -> BOOLEAN] :
           batch = [paths |-> ps,
                    files |-> {[path |-> ps[k], loads |-> loads[k]] : k \in 1..Len(ps)},
                    pipeline |-> None, image_batch |-> None]
    /\ mmap = Unused /\ cube = Unused /\ cache = Unused
    /\ InitThreads
    /\ walk = Unused /\ stack = Unused /\ align = Unused
    /\ rgb = Unused /\ calib = Unused /\ display = Unused

\* run_pipeline on the directory "a".
RunPipelineOnDir ==
    /\ batch.pipeline = None
    /\ batch' = [batch EXCEPT !.pipeline = Some(pipeline_outputs("a", batch.files, "out"))]
    /\ UNCHANGED <<mmap, cubeVars, walk, stack, align, rgb, calib, display>>
\* process_batch on the paths as listed.
ProcessBatchOnPaths ==
    /\ batch.image_batch = None
    /\ batch' = [batch EXCEPT !.image_batch = Some(batch_outputs(batch.paths, batch.files, "out"))]
    /\ UNCHANGED <<mmap, cubeVars, walk, stack, align, rgb, calib, display>>

NextOutputs == RunPipelineOnDir \/ ProcessBatchOnPaths
SpecOutputs == InitOutputs /\ [][NextOutputs]_vars

\* ---- C27: distinct inputs never share an output path ----
Disjoint(r) ==
    r.ok => \A i, j \in 1..Len(r.val) :
                r.val[i].path # r.val[j].path => r.val[i].written \cap r.val[j].written = {}

\* C27: in run_pipeline and in process_batch no two distinct input files
\* are written to the same output path.
C27_OutputsAreDistinct ==
    /\ batch.pipeline # None => Disjoint(batch.pipeline[1])
    /\ batch.image_batch # None => Disjoint(batch.image_batch[1])

\* What does hold: inputs with different stems are written to different
\* paths.
DistinctStems == \A i, j \in 1..Len(batch.paths) : i # j => file_stem(batch.paths[i]) # file_stem(batch.paths[j])
OutputsDistinctForDistinctStems ==
    DistinctStems =>
        /\ batch.pipeline # None => Disjoint(batch.pipeline[1])
        /\ batch.image_batch # None => Disjoint(batch.image_batch[1])

\* process_batch wrote a/x.fits and b/x.fits to the same out/x.png.
SameStemInTwoDirs ==
    /\ batch.image_batch # None
    /\ batch.paths = <<FsPath("a", <<"x", "fits">>), FsPath("b", <<"x", "fits">>)>>
    /\ batch.image_batch[1].val[1].written = batch.image_batch[1].val[2].written
    /\ batch.image_batch[1].val[1].written # {}
\* run_pipeline wrote x.fit and x.fits of one directory under out/x.
SameStemInOneDir ==
    /\ batch.pipeline # None /\ batch.pipeline[1].ok
    /\ Len(batch.pipeline[1].val) = 2
    /\ batch.pipeline[1].val[1].written # {}
    /\ batch.pipeline[1].val[1].written = batch.pipeline[1].val[2].written

\* ------------------------------------------- the HDU walk over usize offsets
\* The three walkers (extract_image_mmap, extract_cube_mmap, LazyCube::open)
\* run `while offset < mmap.len()` and assign `offset = next_hdu_offset`; the
\* offsets are usize (see ULess), and a header is whatever cards stand at the
\* 80-byte chunks counted from the offset the walk is at.

\* 2^64 mod BLOCK_SIZE, from 2^16 by squaring twice.
SquareMod(x) == (x * x) % BLOCK_SIZE
WordRemainder == SquareMod(SquareMod(65536 % BLOCK_SIZE))

\* (s / BLOCK_SIZE) * BLOCK_SIZE on a usize: for s standing for 2^64 + s the
\* greatest multiple of the block below it.
RoundDownToBlock(s) ==
    IF s >= 0 THEN (s \div BLOCK_SIZE) * BLOCK_SIZE
    ELSE ((WordRemainder + s) \div BLOCK_SIZE) * BLOCK_SIZE - WordRemainder

\* A file as the cards that stand in it, each at its byte; every other byte
\* is blank or pixel data.  A header of one block written at `at`: BITPIX,
\* NAXIS, NAXIS1, NAXIS2, NAXIS3, END.
PlacedKeys == <<"BITPIX", "NAXIS", "NAXIS1", "NAXIS2", "NAXIS3", "END">>
PlacedHdu(at, h) ==
    {[at |-> at + (i - 1) * CARD_SIZE, key |-> PlacedKeys[i],
      val |-> IF i = 1 THEN h.bitpix ELSE IF i = 2 THEN h.naxis ELSE IF i = 3 THEN h.n1
              ELSE IF i = 4 THEN h.n2 ELSE IF i = 5 THEN h.n3 ELSE 0] : i \in 1..Len(PlacedKeys)}

\* The chunks parse_header_at reads from `offset` are at offset + 80 i.
ChunkAt(offset, c) == c.at >= offset /\ (c.at - offset) % CARD_SIZE = 0

\* HashMap::get after the inserts of the cards before END: the last one wins.
PlacedGet(file, offset, end_at, key) ==
    IF \E c \in file.cards : c.key = key /\ ChunkAt(offset, c) /\ c.at < end_at
    THEN Some((CHOOSE c \in file.cards :
                  /\ c.key = key /\ ChunkAt(offset, c) /\ c.at < end_at
                  /\ \A d \in file.cards :
                        d.key = key /\ ChunkAt(offset, d) /\ d.at < end_at => d.at <= c.at).val)
    ELSE None

AxisKey(i) == IF i = 1 THEN "NAXIS1" ELSE IF i = 2 THEN "NAXIS2" ELSE "NAXIS3"

\* The factors of data_byte_count in the order of its multiplications:
\* NAXIS1 .. NAXISn as usize, then bytes_per_pixel.
ByteCountFactors(file, offset, end_at) ==
    [i \in 1..Max(0, unwrap_or(PlacedGet(file, offset, end_at, "NAXIS"), 0)) |->
        unwrap_or(PlacedGet(file, offset, end_at, AxisKey(i)), 1)]
    \o <<Abs(unwrap_or(PlacedGet(file, offset, end_at, "BITPIX"), 0)) \div 8>>

\* Some multiplication of 1 * f[1] * f[2] * ... leaves the 64 bits.
ProductOverflows(f) ==
    \E i \in 1..Len(f) : MulOverflows(Product(SubSeq(f, 1, i - 1)), f[i])

\* HduHeader::data_byte_count on usize.
data_byte_count_usize(file, offset, end_at, overflow_checks) ==
    IF unwrap_or(PlacedGet(file, offset, end_at, "NAXIS"), 0) = 0 THEN Completed(0)
    ELSE IF overflow_checks /\ ProductOverflows(ByteCountFactors(file, offset, end_at))
    THEN Panicked("attempt to multiply with overflow")
    ELSE Completed(Product(ByteCountFactors(file, offset, end_at)))

\* HduHeader::padded_data_bytes on usize.
padded_data_bytes_usize(raw, overflow_checks) ==
    IF raw.panicked THEN raw
    ELSE IF overflow_checks /\ AddOverflows(raw.val, BLOCK_SIZE - 1)
    THEN Panicked("attempt to add with overflow")
    ELSE Completed(RoundDownToBlock(raw.val + BLOCK_SIZE - 1))

\* The first END the chunks from `offset` meet, if the blocks up to it are
\* inside the file.
EndsFrom(file, offset) == {c.at : c \in {d \in file.cards : d.key = "END" /\ ChunkAt(offset, d)}}
FirstEnd(file, offset) == CHOOSE e \in EndsFrom(file, offset) : \A o \in EndsFrom(file, offset) : e <= o
DataStartAfter(offset, end_at) == offset + ((end_at - offset) \div BLOCK_SIZE + 1) * BLOCK_SIZE

\* parse_header_at(mmap, offset) for offset < mmap.len().
parse_header_at_usize(file, offset, overflow_checks) ==
    IF \/ EndsFrom(file, offset) = {}
       \/ DataStartAfter(offset, FirstEnd(file, offset)) > file.len
    THEN Completed(Err("Unexpected end of file while reading header"))
    ELSE TheOne({
        IF padded.panicked THEN padded
        ELSE IF overflow_checks /\ AddOverflows(data_start, padded.val)
        THEN Panicked("attempt to add with overflow")
        ELSE Completed(Ok([header_start |-> offset,
                           end_at |-> FirstEnd(file, offset),
                           data_start |-> data_start,
                           next_hdu_offset |-> data_start + padded.val])) :
        data_start \in {DataStartAfter(offset, FirstEnd(file, offset))},
        padded \in {padded_data_bytes_usize(
                       data_byte_count_usize(file, offset, FirstEnd(file, offset), overflow_checks),
                       overflow_checks)}})

\* The branch of a walker that has found its HDU: the bytes of the data as
\* the product of `factors` in the code's order, their end against the
\* file, and for the two extractors the slice, decode_pixels and
\* from_shape_vec.
SelectedHdu(file, factors, shape, data_at, bitpix, words, decodes, overflow_checks) ==
    IF bitpix = None THEN Completed(Err(words.missing))
    ELSE IF overflow_checks /\ ProductOverflows(factors)
    THEN Panicked("attempt to multiply with overflow")
    ELSE IF overflow_checks /\ AddOverflows(data_at, Product(factors))
    THEN Panicked("attempt to add with overflow")
    ELSE IF ULess(file.len, data_at + Product(factors))
    THEN Completed(Err(words.exceeds))
    ELSE IF ~decodes THEN Completed(Ok(shape))
    ELSE IF ULess(data_at + Product(factors), data_at)
    THEN Panicked("slice index starts after its end")
    ELSE IF bitpix[1] \in SupportedBitpix /\ ~ProductOverflows(factors)
    THEN Completed(Ok(shape))
    ELSE Completed(Err(words.reshape))

\* The words of each walker's errors.
WalkerWords(walker) ==
    IF walker = "extract_image_mmap"
    THEN [none |-> "No 2D image block found", missing |-> "Missing BITPIX in image HDU",
          exceeds |-> "Image data exceeds file size", reshape |-> "Failed to reshape image pixels"]
    ELSE IF walker = "extract_cube_mmap"
    THEN [none |-> "No 3D data block found", missing |-> "Missing BITPIX in cube HDU",
          exceeds |-> "Cube data exceeds file size", reshape |-> "Failed to reshape cube pixels"]
    ELSE [none |-> "No 3D data block found in FITS file", missing |-> "Missing BITPIX",
          exceeds |-> "Cube data exceeds file size", reshape |-> "Failed to reshape cube pixels"]

\* The test each walker puts on a parsed header.
WalkerSelects(walker, naxis, naxis1, naxis2, naxis3) ==
    IF walker = "extract_image_mmap" THEN naxis >= 2 /\ naxis1 > 1 /\ naxis2 > 1
    ELSE naxis = 3 /\ naxis3 > 1

\* The cards pushed before END, for HduHeader::data_offset in open.
PushedCards(file, offset, end_at) ==
    Cardinality({c \in file.cards : ChunkAt(offset, c) /\ c.at < end_at})

\* What the selected branch of `walker` returns for the header parsed at
\* `offset`.
WalkerReturns(walker, file, p, overflow_checks) ==
    TheOne({
        IF walker = "extract_image_mmap"
        THEN SelectedHdu(file, <<n1, n2, Abs(unwrap_or(bitpix, 0)) \div 8>>, <<n2, n1>>,
                         p.data_start, bitpix, WalkerWords(walker), TRUE, overflow_checks)
        ELSE IF walker = "extract_cube_mmap"
        THEN SelectedHdu(file, <<n1, n2, n3, Abs(unwrap_or(bitpix, 0)) \div 8>>, <<n3, n2, n1>>,
                         p.data_start, bitpix, WalkerWords(walker), TRUE, overflow_checks)
        ELSE SelectedHdu(file, <<n1, n2, Abs(unwrap_or(bitpix, 0)) \div 8, n3>>, <<n3, n2, n1>>,
                         p.header_start
                         + CeilDiv(PushedCards(file, p.header_start, p.end_at) + 1, CardsPerBlock)
                           * BLOCK_SIZE,
                         bitpix, WalkerWords(walker), FALSE, overflow_checks) :
        n1 \in {unwrap_or(PlacedGet(file, p.header_start, p.end_at, "NAXIS1"), 0)},
        n2 \in {unwrap_or(PlacedGet(file, p.header_start, p.end_at, "NAXIS2"), 0)},
        n3 \in {unwrap_or(PlacedGet(file, p.header_start, p.end_at, "NAXIS3"), 0)},
        bitpix \in {PlacedGet(file, p.header_start, p.end_at, "BITPIX")}})

\* One turn of `while offset < mmap.len()`: the walk returns, or panics, or
\* goes on at next_hdu_offset.
WalkTurn(w) ==
    IF ~ULess(w.offset, w.file.len)
    THEN [w EXCEPT !.result = Some(Completed(Err(WalkerWords(w.walker).none)))]
    ELSE TheOne({
        IF p.panicked \/ ~p.val.ok THEN [w EXCEPT !.result = Some(p)]
        ELSE IF WalkerSelects(w.walker,
                    unwrap_or(PlacedGet(w.file, w.offset, p.val.val.end_at, "NAXIS"), 0),
                    unwrap_or(PlacedGet(w.file, w.offset, p.val.val.end_at, "NAXIS1"), 0),
                    unwrap_or(PlacedGet(w.file, w.offset, p.val.val.end_at, "NAXIS2"), 0),
                    unwrap_or(PlacedGet(w.file, w.offset, p.val.val.end_at, "NAXIS3"), 0))
        THEN [w EXCEPT !.result =
                 Some(WalkerReturns(w.walker, w.file, p.val.val, w.overflow_checks))]
        ELSE [w EXCEPT !.offset = p.val.val.next_hdu_offset,
                       !.from = Some(w.offset),
                       !.headers = w.headers + 1,
                       !.seen = w.seen \cup {w.offset}] :
        p \in {parse_header_at_usize(w.file, w.offset, w.overflow_checks)}})

\* ------------------------------------------- specification: SpecHduWalk
\* A walker on a file of one or two headers whose NAXISn are zero, small,
\* negative or very large, or on the file LoopFile; each step is one turn of
\* the loop.
MaxHeaders == 130
HugeAxis == 100000000

\* The walk leaves a header with NAXIS = 1, BITPIX = 8 and NAXIS1 = LoopAxis
\* at BackStep bytes before the header.
BackStep == WordRemainder + 2 * BLOCK_SIZE
LoopAxis == 0 - (BackStep + BLOCK_SIZE + (BLOCK_SIZE - 1))
\* After LoopHdus such headers the walk is a whole number of blocks back.
LoopHdus == BLOCK_SIZE \div 64

PlacedFile(len, hdus) == [len |-> len, cards |-> UNION {PlacedHdu(x.at, x.h) : x \in hdus}]
OneAxis(n1) == [bitpix |-> 8, naxis |-> 1, n1 |-> n1, n2 |-> 0, n3 |-> 0]

\* A primary HDU whose data reach the byte LoopHdus * BackStep, a header
\* with NAXIS1 = LoopAxis there and at every BackStep bytes below it.
LoopFile ==
    PlacedFile(LoopHdus * BackStep + BLOCK_SIZE,
        {[at |-> 0, h |-> OneAxis(LoopHdus * BackStep - BLOCK_SIZE)]}
        \cup {[at |-> t * BackStep, h |-> OneAxis(LoopAxis)] : t \in 1..LoopHdus})

AxisValues == {0, 2, BLOCK_SIZE, -1, 0 - (BLOCK_SIZE + WordRemainder), LoopAxis, HugeAxis}
Walkers == {"extract_image_mmap", "extract_cube_mmap", "open"}

NewWalk(file, walker, overflow_checks) ==
    [file |-> file, walker |-> walker, overflow_checks |-> overflow_checks,
     offset |-> 0, from |-> None, headers |-> 0, seen |-> {}, result |-> None]

InitHduWalk ==
    /\ \E walker \in Walkers, overflow_checks \in BOOLEAN :
          \/ walk = NewWalk(LoopFile, walker, overflow_checks)
          \/ \E bitpix \in {8, -32}, naxis \in 0..3, n1, m1 \in AxisValues, n2 \in {0, 2},
                m \in {1, 3}, second \in 1..2, blocks \in 3..4 :
                walk = NewWalk(PlacedFile(blocks * BLOCK_SIZE,
                          {[at |-> 0, h |-> [bitpix |-> bitpix, naxis |-> naxis,
                                             n1 |-> n1, n2 |-> n2, n3 |-> 2]],
                           [at |-> second * BLOCK_SIZE,
                            h |-> [bitpix |-> 8, naxis |-> m, n1 |-> m1, n2 |-> 2, n3 |-> 2]]}),
                          walker, overflow_checks)
    /\ mmap = Unused /\ cube = Unused /\ cache = Unused
    /\ InitThreads
    /\ stack = Unused /\ align = Unused
    /\ OthersUnused

WalkerTurn(walker) ==
    /\ walk.walker = walker /\ walk.result = None /\ walk.headers < MaxHeaders
    /\ walk' = WalkTurn(walk)
    /\ UNCHANGED <<mmap, cubeVars, stack, align, otherVars>>

ExtractImageTurn == WalkerTurn("extract_image_mmap")
ExtractCubeTurn == WalkerTurn("extract_cube_mmap")
OpenTurn == WalkerTurn("open")

NextHduWalk == ExtractImageTurn \/ ExtractCubeTurn \/ OpenTurn
SpecHduWalk == InitHduWalk /\ [][NextHduWalk]_vars

\* C28: every turn of the walk that goes on leaves the offset at least one
\* block after the offset it was at, and the walk is over after at most
\* file_length / 2880 headers.
Walked == walk.from # None
C28_WalkMovesForward ==
    /\ Walked => /\ ~AddOverflows(walk.from[1], BLOCK_SIZE)
                 /\ ~ULess(walk.offset, walk.from[1] + BLOCK_SIZE)
    /\ walk.headers <= walk.file.len \div BLOCK_SIZE

\* Where no product or sum of the header leaves the 64 bits the offset moves
\* forward by at least one block, for zero and very large NAXISn as well.
NoWrapAt(file, offset) ==
    \/ EndsFrom(file, offset) = {}
    \/ /\ ~ProductOverflows(ByteCountFactors(file, offset, FirstEnd(file, offset)))
       /\ ~AddOverflows(Product(ByteCountFactors(file, offset, FirstEnd(file, offset))),
                        BLOCK_SIZE - 1)
       /\ ~AddOverflows(DataStartAfter(offset, FirstEnd(file, offset)),
             RoundDownToBlock(Product(ByteCountFactors(file, offset, FirstEnd(file, offset)))
                              + BLOCK_SIZE - 1))
WalkMovesForwardWithoutWrap ==
    Walked /\ NoWrapAt(walk.file, walk.from[1])
    => ~ULess(walk.offset, walk.from[1] + BLOCK_SIZE)

\* The walk is back at an offset it has left: it goes on for ever.
WalkLoops == walk.offset \in walk.seen
\* The walk has gone back in a file of two headers and ended with an error.
WalkWentBack ==
    /\ Walked /\ ULess(walk.offset, walk.from[1]) /\ walk.file # LoopFile
\* More headers than the file has blocks.
MoreHeadersThanBlocks == walk.headers > walk.file.len \div BLOCK_SIZE
\* A build with overflow checks panics on the header instead.
WalkPanics ==
    /\ walk.overflow_checks /\ walk.result # None /\ walk.result[1].panicked
\* A zero NAXISn and a very large one are walked over in order.
WalkedOverZeroAndHuge ==
    /\ walk.headers = 2 /\ walk.offset > walk.from[1]
    /\ \E c, d \in walk.file.cards :
          /\ c.key = "NAXIS1" /\ c.val = 0 /\ c.at < BLOCK_SIZE
          /\ d.key = "NAXIS1" /\ d.val = HugeAxis /\ d.at > BLOCK_SIZE

====
